---- MODULE Spec2Model ----
(***************************************************************************)
(* Model of the market-data collectors (collector_lighter.py and           *)
(* collector_hyperliquid.py): the DatabaseWriter connection handling, the  *)
(* fetch with its retry logic, the batch insert and the main loop.         *)
(*                                                                         *)
(* Each collector is a process of its own (its own asyncio.run(main()))    *)
(* with its own DatabaseWriter; the market_data table is the only thing    *)
(* they share.  A process moves between the await points of its code.      *)
(***************************************************************************)
EXTENDS Integers, Sequences, FiniteSets, Bags, TLC

VARIABLES
    started,      \* the collectors whose process runs in this behaviour
    pc,           \* pc[c]: where collector c's main() is
    tick,         \* tick[c]: number of the current pass of `while True`
    db,           \* db[c]: the DatabaseWriter: conn (0 is None) and the handle's state
    nconn,        \* nconn[c]: handles created so far by psycopg2.connect (names the next one)
    retry_count,  \* retry_count[c]: argument of the current fetch_funding_rates call
    results,      \* results[c]: what the fetch returned to collect_data
    table,        \* the market_data table: a bag of committed rows
    dbUp,         \* whether the database accepts connections
    exc,          \* exc[c]: the exception that left main(), "none" while it runs
    ev,           \* ev[c]: what the current tick has done so far (observation only)
    session,      \* session[c]: the aiohttp.ClientSession of collect_data: id, open
    payload,      \* the upstream payload handed to a collector's parser on its own
    parsed,       \* what the parser made of payload
    response      \* what an API endpoint answered on the table

vars == <<started, pc, tick, db, nconn, retry_count, results, table, dbUp, exc, ev,
         session, payload, parsed, response>>

Collectors == {"lighter", "hyperliquid"}

-----------------------------------------------------------------------------
(* Bounds of the model *)

MaxTicks == 2
MaxRecs == 2
MaxConnects == 3
MaxRows == 3
MaxLen == 3
MaxTableRows == 4

\* The two limits of the API, scaled down so that small tables reach them:
\* RowLimit stands for the 144 of `rn <= 144`, TopN for the 10 of the
\* top-10 lists.
RowLimit == 2
TopN == 2

-----------------------------------------------------------------------------
(* Program constants *)

MAX_RETRIES == 3
RETRY_DELAY == 60

EXCHANGE_MAP ==
    ("binance" :> "binance_lighter") @@ ("bybit" :> "bybit_lighter") @@
    ("hyperliquid" :> "hyperliquid_lighter") @@ ("lighter" :> "lighter")

RequiredFields == {"market_id", "exchange", "symbol", "rate"}

\* min(a, b)
Min(a, b) == IF a <= b THEN a ELSE b

\* A lookup that gives the text 'unknown' for a key the dict lacks.
DictGet_unknown(d, k, default) == IF k \in DOMAIN d THEN d[k] ELSE "unknown"

\* dict.get(k, default).
DictGet(d, k, default) == IF k \in DOMAIN d THEN d[k] ELSE default

-----------------------------------------------------------------------------
(* Values *)

NoneResult == [none |-> TRUE, rows |-> <<>>]
DataResult(rows) == [none |-> FALSE, rows |-> rows]

\* Python truthiness of `results`: neither None nor an empty dict.
Truthy(r) == ~r.none /\ Len(r.rows) > 0

\* A decoded JSON value: a number, a string that spells a number, null,
\* a string that spells no number, the empty string, or a key that is not
\* there. Rates and prices are counted in whole units of the smallest step.
JNum(v) == [kind |-> "num", val |-> v]
JStr(v) == [kind |-> "str", val |-> v]
JNull == [kind |-> "null", val |-> 0]
JText == [kind |-> "text", val |-> 0]
JEmpty == [kind |-> "empty", val |-> 0]
JMissing == [kind |-> "missing", val |-> 0]

\* Python's None where a name (exchange, symbol) is expected: JSON null.
PyNone == "None"

\* A nullable NUMERIC column: None or a Decimal.
Absent == [has |-> FALSE, val |-> 0]
Dec(v) == [has |-> TRUE, val |-> v]

\* str(x): a number becomes the string that spells it, None becomes the
\* text 'None', a string stays what it is.
Str(v) ==
    IF v.kind = "num" THEN JStr(v.val)
    ELSE IF v.kind \in {"null", "missing"} THEN JText
    ELSE v

\* Decimal(x): raises on None and on a string that spells no number.
Decimal(v) ==
    IF v.kind \in {"num", "str"} THEN [raised |-> FALSE, dec |-> Dec(v.val)]
    ELSE [raised |-> TRUE, dec |-> Absent]

\* Python truthiness of d.get(k): false for a missing key, None, '' and 0.
JTruthy(v) == v.kind \in {"str", "text"} \/ (v.kind = "num" /\ v.val # 0)

\* `Decimal(d[k]) if d.get(k) else None`.
DecimalIfAny(v) ==
    IF JTruthy(v) THEN Decimal(v) ELSE [raised |-> FALSE, dec |-> Absent]

\* A record stamped with a clock read of its own: the time differs from
\* one market to the next.
Record_own_clock(t, e, s, price, volume_24h, open_interest, funding_rate, bid, ask) ==
    [time |-> <<t, e, s>>, exchange |-> e, symbol |-> s, price |-> price,
     volume_24h |-> volume_24h, open_interest |-> open_interest,
     funding_rate |-> funding_rate, bid |-> bid, ask |-> ask]

\* The dict both parsers build for one market: the columns of market_data.
Record(t, e, s, price, volume_24h, open_interest, funding_rate, bid, ask) ==
    [time |-> t, exchange |-> e, symbol |-> s, price |-> price,
     volume_24h |-> volume_24h, open_interest |-> open_interest,
     funding_rate |-> funding_rate, bid |-> bid, ask |-> ask]

Row(t, e, s) == Record(t, e, s, Absent, Absent, Absent, Dec(1), Absent, Absent)

\* A dict filled with setdefault: the first value of a key stays.
DictPut_first_wins(rows, row) ==
    IF \E i \in 1..Len(rows) :
          rows[i].exchange = row.exchange /\ rows[i].symbol = row.symbol
    THEN rows
    ELSE Append(rows, row)

\* results[key] = result: a new key is appended, an existing key keeps its
\* position and takes the new value.
DictPut(rows, row) ==
    IF \E i \in 1..Len(rows) :
          rows[i].exchange = row.exchange /\ rows[i].symbol = row.symbol
    THEN [i \in 1..Len(rows) |->
            IF rows[i].exchange = row.exchange /\ rows[i].symbol = row.symbol
            THEN row ELSE rows[i]]
    ELSE Append(rows, row)

SeqToBag(s) ==
    LET vals == {s[i] : i \in 1..Len(s)}
    IN  [v \in vals |-> Cardinality({i \in 1..Len(s) : s[i] = v})]

-----------------------------------------------------------------------------
(* Upstream payloads drawn by the model.  An aggregator payload is the     *)
(* decoded JSON body: whether it is a dict, which top-level keys it has,   *)
(* whether funding_rates is a list, and the records.  A record is the set  *)
(* of keys it has and the values of exchange, symbol and rate (null is a   *)
(* rate Decimal(str(.)) rejects, such as null).                            *)

RecordPool ==
    { [fields |-> RequiredFields, exchange |-> e, symbol |-> "BTC", rate |-> JNum(1)] :
        e \in {"binance", "dydx"} }
    \cup
    { [fields |-> RequiredFields \ {f}, exchange |-> "binance", symbol |-> "BTC",
       rate |-> JNum(1)] : f \in {"rate", "symbol"} }
    \cup
    { [fields |-> RequiredFields, exchange |-> "binance", symbol |-> "BTC",
       rate |-> JNull] }

RECURSIVE SeqsUpTo(_, _)
SeqsUpTo(S, n) ==
    IF n = 0 THEN {<<>>}
    ELSE LET shorter == SeqsUpTo(S, n - 1)
         IN  shorter \cup
             {Append(q, x) : q \in {r \in shorter : Len(r) = n - 1}, x \in S}

WellFormed(recs) ==
    [isDict |-> TRUE, keys |-> {"code", "funding_rates"}, isList |-> TRUE,
     recs |-> recs]

LighterPayloads ==
    { WellFormed(recs) : recs \in SeqsUpTo(RecordPool, MaxRecs) }
    \cup
    { [isDict |-> FALSE, keys |-> {}, isList |-> FALSE, recs |-> <<>>],
      [isDict |-> TRUE, keys |-> {"funding_rates"}, isList |-> TRUE, recs |-> <<>>],
      [isDict |-> TRUE, keys |-> {"code"}, isList |-> FALSE, recs |-> <<>>],
      [isDict |-> TRUE, keys |-> {"code", "funding_rates"}, isList |-> FALSE,
       recs |-> <<>>] }

\* What one session.get / session.post can come to.
LighterResponses ==
    { [type |-> "timeout", status |-> 0, data |-> WellFormed(<<>>)],
      [type |-> "error", status |-> 0, data |-> WellFormed(<<>>)],
      [type |-> "http", status |-> 500, data |-> WellFormed(<<>>)] }
    \cup
    { [type |-> "http", status |-> 200, data |-> d] : d \in LighterPayloads }

-----------------------------------------------------------------------------
(* LighterCollector *)

\* A validation that looks at the top level only.
validate_top_level(data) ==
    IF ~data.isDict THEN "ValueError"
    ELSE IF "code" \notin data.keys THEN "ValueError"
    ELSE IF "funding_rates" \notin data.keys THEN "ValueError"
    ELSE IF ~data.isList THEN "ValueError"
    ELSE "True"

\* "True" when validate_response returns, "ValueError" when it raises.
validate_response(data) ==
    IF ~data.isDict THEN "ValueError"
    ELSE IF "code" \notin data.keys THEN "ValueError"
    ELSE IF "funding_rates" \notin data.keys THEN "ValueError"
    ELSE IF ~data.isList THEN "ValueError"
    ELSE IF \E i \in 1..Len(data.recs) : ~(RequiredFields \subseteq data.recs[i].fields)
         THEN "ValueError"
    ELSE "True"

RECURSIVE ParseRecords(_, _, _)
ParseRecords(recs, now, acc) ==
    IF recs = <<>> THEN [raised |-> FALSE, rows |-> acc]
    ELSE LET record == Head(recs)
             mapped_exchange == DictGet(EXCHANGE_MAP, record.exchange,
                                        record.exchange)
             rate == Decimal(Str(record.rate))
         IN  IF {"exchange", "symbol", "rate"} \subseteq record.fields
                /\ ~rate.raised
             THEN ParseRecords(Tail(recs), now,
                     DictPut(acc, Record(now, mapped_exchange, record.symbol,
                                         Absent, Absent, Absent, rate.dec,
                                         Absent, Absent)))
             ELSE [raised |-> TRUE, rows |-> <<>>]

\* LighterCollector.parse_response: the values of the dict it returns, in
\* the dict's order; raised when record[..] or Decimal(..) raises.
Lighter_parse_response(data, now) ==
    IF ~data.isDict \/ data.keys = {} \/ "funding_rates" \notin data.keys
    THEN [raised |-> FALSE, rows |-> <<>>]
    ELSE ParseRecords(data.recs, now, <<>>)

\* The same retry with a constant delay instead of a growing one.
Retry_flat_delay(rc, why) ==
    IF rc < MAX_RETRIES
    THEN [next |-> "sleep", delay |-> RETRY_DELAY,
          result |-> NoneResult, outcome |-> why]
    ELSE [next |-> "return", delay |-> 0, result |-> NoneResult, outcome |-> why]

\* The same retry with the limit at twice MAX_RETRIES.
Retry_twice_max(rc, why) ==
    IF rc < 2 * MAX_RETRIES
    THEN [next |-> "sleep", delay |-> RETRY_DELAY * (rc + 1),
          result |-> NoneResult, outcome |-> why]
    ELSE [next |-> "return", delay |-> 0, result |-> NoneResult, outcome |-> why]

\* The retry test with <= where the code has <.
Retry_one_more(rc, why) ==
    IF rc <= MAX_RETRIES
    THEN [next |-> "sleep", delay |-> RETRY_DELAY * (rc + 1),
          result |-> NoneResult, outcome |-> why]
    ELSE [next |-> "return", delay |-> 0, result |-> NoneResult, outcome |-> why]

\* One pass through the body of fetch_funding_rates(session, retry_count = rc)
\* for the response resp: either it returns (next = "return") or it starts
\* the sleep that precedes the recursive call (next = "sleep").
Retry(rc, why) ==
    IF rc < MAX_RETRIES
    THEN [next |-> "sleep", delay |-> RETRY_DELAY * (rc + 1),
          result |-> NoneResult, outcome |-> why]
    ELSE [next |-> "return", delay |-> 0, result |-> NoneResult, outcome |-> why]

fetch_funding_rates(resp, rc, now) ==
    IF resp.type = "timeout" THEN Retry(rc, "timeout")
    ELSE IF resp.type = "error" THEN Retry(rc, "error")
    ELSE IF resp.status = 200
    THEN IF validate_response(resp.data) = "ValueError"
         THEN Retry(rc, "invalid")
         ELSE LET p == Lighter_parse_response(resp.data, now)
              IN  IF p.raised THEN Retry(rc, "unparsable")
                  ELSE [next |-> "return", delay |-> 0,
                        result |-> DataResult(p.rows), outcome |-> "parsed"]
    ELSE [next |-> "return", delay |-> 0, result |-> NoneResult,
          outcome |-> "status"]

-----------------------------------------------------------------------------
(* HyperliquidCollector.  A payload is the decoded JSON body: the number   *)
(* of its top-level elements, whether data[0] has 'universe', the names of *)
(* the universe entries and the market contexts.  A context holds the     *)
(* JSON values of markPx, dayNtlVlm, openInterest and funding, and         *)
(* impactPxs: whether the key holds a list, and the list.                  *)

OkCtx ==
    [markPx |-> JStr(100), dayNtlVlm |-> JStr(5), openInterest |-> JStr(7),
     funding |-> JStr(1),
     impactPxs |-> [present |-> TRUE, items |-> <<JStr(99), JStr(101)>>]]

\* A context with a funding value Decimal(.) rejects.
BadCtx == [OkCtx EXCEPT !.funding = JText]

HyperliquidPayloads ==
    { [len |-> 2, hasUniverse |-> TRUE, universe |-> u, market |-> m] :
        u \in SeqsUpTo({"BTC", "ETH"}, MaxRecs),
        m \in SeqsUpTo({OkCtx, BadCtx}, MaxRecs) }
    \cup
    { [len |-> 0, hasUniverse |-> FALSE, universe |-> <<>>, market |-> <<>>],
      [len |-> 1, hasUniverse |-> TRUE, universe |-> <<"BTC">>, market |-> <<>>],
      [len |-> 2, hasUniverse |-> FALSE, universe |-> <<>>, market |-> <<OkCtx>>] }

HyperliquidResponses ==
    { [type |-> "error", status |-> 0,
       data |-> [len |-> 0, hasUniverse |-> FALSE, universe |-> <<>>, market |-> <<>>]],
      [type |-> "http", status |-> 500,
       data |-> [len |-> 0, hasUniverse |-> FALSE, universe |-> <<>>, market |-> <<>>]] }
    \cup
    { [type |-> "http", status |-> 200, data |-> d] : d \in HyperliquidPayloads }

\* A loop body that stores the lower impact price as bid and the higher
\* as ask.
ParseContext_ordered(symbol_name, market_info, now) ==
    LET px    == market_info.impactPxs
        some  == px.present /\ Len(px.items) > 0
        bid   == IF some THEN Decimal(px.items[1])
                 ELSE [raised |-> FALSE, dec |-> Absent]
        ask   == IF some /\ Len(px.items) > 1 THEN Decimal(px.items[2])
                 ELSE [raised |-> FALSE, dec |-> Absent]
        swap  == bid.dec.has /\ ask.dec.has /\ bid.dec.val > ask.dec.val
        price == DecimalIfAny(market_info.markPx)
        vol   == DecimalIfAny(market_info.dayNtlVlm)
        oi    == DecimalIfAny(market_info.openInterest)
        fr    == DecimalIfAny(market_info.funding)
    IN  [raised |-> bid.raised \/ ask.raised \/ price.raised \/ vol.raised
                    \/ oi.raised \/ fr.raised,
         row |-> Record(now, "hyperliquid", symbol_name, price.dec, vol.dec,
                        oi.dec, fr.dec,
                        IF swap THEN ask.dec ELSE bid.dec,
                        IF swap THEN bid.dec ELSE ask.dec)]

\* The body of parse_response's loop for one universe entry: the bid and
\* ask taken from impactPxs, the dict built from market_info.
ParseContext(symbol_name, market_info, now) ==
    LET px    == market_info.impactPxs
        some  == px.present /\ Len(px.items) > 0
        bid   == IF some THEN Decimal(px.items[1])
                 ELSE [raised |-> FALSE, dec |-> Absent]
        ask   == IF some /\ Len(px.items) > 1 THEN Decimal(px.items[2])
                 ELSE [raised |-> FALSE, dec |-> Absent]
        price == DecimalIfAny(market_info.markPx)
        vol   == DecimalIfAny(market_info.dayNtlVlm)
        oi    == DecimalIfAny(market_info.openInterest)
        fr    == DecimalIfAny(market_info.funding)
    IN  [raised |-> bid.raised \/ ask.raised \/ price.raised \/ vol.raised
                    \/ oi.raised \/ fr.raised,
         row |-> Record(now, "hyperliquid", symbol_name, price.dec, vol.dec,
                        oi.dec, fr.dec, bid.dec, ask.dec)]

RECURSIVE ParseUniverse(_, _, _, _, _)
ParseUniverse(universe, market_data, i, now, acc) ==
    IF i > Len(universe) THEN [raised |-> FALSE, rows |-> acc]
    ELSE IF i > Len(market_data)
         THEN ParseUniverse(universe, market_data, i + 1, now, acc)
    ELSE LET r == ParseContext(universe[i], market_data[i], now)
         IN  IF r.raised THEN [raised |-> TRUE, rows |-> <<>>]
             ELSE ParseUniverse(universe, market_data, i + 1, now,
                                DictPut(acc, r.row))

\* A parse_response that gives up when the two lists differ in length.
parse_response_strict(data, now) ==
    IF data.len < 2 THEN [raised |-> FALSE, rows |-> <<>>]
    ELSE IF ~data.hasUniverse \/ Len(data.universe) # Len(data.market)
         THEN [raised |-> TRUE, rows |-> <<>>]
    ELSE ParseUniverse(data.universe, data.market, 1, now, <<>>)

\* HyperliquidCollector.parse_response: the values of the dict it returns.
Hyperliquid_parse_response(data, now) ==
    IF data.len < 2 THEN [raised |-> FALSE, rows |-> <<>>]
    ELSE IF ~data.hasUniverse THEN [raised |-> TRUE, rows |-> <<>>]
    ELSE ParseUniverse(data.universe, data.market, 1, now, <<>>)

\* HyperliquidCollector.fetch_market_data: a single attempt, every exception
\* caught and turned into None.
fetch_market_data(resp, now) ==
    IF resp.type # "http" THEN [result |-> NoneResult, outcome |-> "error"]
    ELSE IF resp.status = 200
    THEN LET p == Hyperliquid_parse_response(resp.data, now)
         IN  IF p.raised THEN [result |-> NoneResult, outcome |-> "unparsable"]
             ELSE [result |-> DataResult(p.rows), outcome |-> "parsed"]
    ELSE [result |-> NoneResult, outcome |-> "status"]

-----------------------------------------------------------------------------
(* DatabaseWriter (the same class in both collectors).  A writer is        *)
(* [conn, state]: conn is the handle (0 for None, else the number of the   *)
(* psycopg2.connect call that made it) and state is that handle's state:   *)
(* "none", "alive", "broken" (the server side is gone: cursor() works,     *)
(* execute raises) or "closed" (cursor() raises).                          *)

NoWriter == [conn |-> 0, state |-> "none"]

\* DatabaseWriter.connect: psycopg2.connect succeeds iff the database is up;
\* self.conn is assigned only then, and the error is re-raised otherwise.
connect(w, up, id) ==
    IF up THEN [w |-> [conn |-> id, state |-> "alive"], raised |-> FALSE]
    ELSE [w |-> w, raised |-> TRUE]

\* is_connected without its try/except: a failing probe raises.
is_connected_no_except(w) ==
    IF w.conn = 0 THEN [ret |-> FALSE, raised |-> FALSE, probes |-> 0, w |-> w]
    ELSE IF w.state \in {"closed", "broken"}
    THEN [ret |-> FALSE, raised |-> TRUE, probes |-> 1, w |-> w]
    ELSE [ret |-> TRUE, raised |-> FALSE, probes |-> 1, w |-> w]

\* DatabaseWriter.is_connected: the value returned, whether it raised, the
\* number of probes (SELECT 1 attempts) and the writer afterwards.
is_connected(w) ==
    IF w.conn = 0 THEN [ret |-> FALSE, raised |-> FALSE, probes |-> 0, w |-> w]
    ELSE IF w.state = "closed"      \* self.conn.cursor() raises
    THEN [ret |-> FALSE, raised |-> FALSE, probes |-> 1, w |-> w]
    ELSE IF w.state = "broken"      \* cursor.execute('SELECT 1') raises
    THEN [ret |-> FALSE, raised |-> FALSE, probes |-> 1, w |-> w]
    ELSE [ret |-> TRUE, raised |-> FALSE, probes |-> 1, w |-> w]

\* conn.close() of the stale handle inside ensure_connection; closeOk is
\* whether that close() returns rather than raises.
CloseHandle(w, closeOk) ==
    IF closeOk THEN [w EXCEPT !.state = "closed"] ELSE w

\* ensure_connection that only probes and never reconnects.
ensure_connection_probe_only(w, up, id, closeOk) ==
    [w |-> w, raised |-> FALSE, probes |-> IF w.conn = 0 THEN 0 ELSE 1,
     closes |-> 0, connects |-> 0]

\* ensure_connection that reconnects whether or not the handle is live.
ensure_connection_always(w, up, id, closeOk) ==
    LET stale == IF w.conn # 0 THEN [w EXCEPT !.state = "closed"] ELSE w
        con == IF up THEN [w |-> [conn |-> id, state |-> "alive"], raised |-> FALSE]
               ELSE [w |-> stale, raised |-> TRUE]
    IN  [w |-> con.w, raised |-> con.raised, probes |-> IF w.conn = 0 THEN 0 ELSE 1,
         closes |-> IF w.conn # 0 THEN 1 ELSE 0, connects |-> 1]

\* DatabaseWriter.ensure_connection.
ensure_connection(w, up, id, closeOk) ==
    LET chk == is_connected(w)
    IN  IF chk.raised
        THEN [w |-> chk.w, raised |-> TRUE, probes |-> chk.probes,
              closes |-> 0, connects |-> 0]
        ELSE IF ~chk.ret
        THEN LET stale == IF chk.w.conn # 0 THEN CloseHandle(chk.w, closeOk)
                          ELSE chk.w
                 con == connect(stale, up, id)
             IN  [w |-> con.w, raised |-> con.raised, probes |-> chk.probes,
                  closes |-> IF chk.w.conn # 0 THEN 1 ELSE 0, connects |-> 1]
        ELSE [w |-> chk.w, raised |-> FALSE, probes |-> chk.probes,
              closes |-> 0, connects |-> 0]

\* Where a batch insert on a live handle can fail: nowhere, in executemany
\* after k rows were accepted into the transaction, in commit, or in the
\* cursor.close() that follows the commit.
Faults(n) ==
    { [at |-> a, k |-> 0] : a \in {"none", "commit", "close"} }
    \cup { [at |-> "execute", k |-> k] : k \in 0..(n - 1) }

\* The calls insert_market_data_batch makes on a non-empty data_list, in
\* order, with the fault injected on a live handle: which of them return,
\* and txn, the rows the open transaction holds when the try block is left.
InsertSteps(w, data_list, fault) ==
    LET cursorOk  == w.conn # 0 /\ w.state # "closed"
        executeOk == cursorOk /\ w.state = "alive" /\ fault.at # "execute"
        commitOk  == executeOk /\ fault.at # "commit"
        closeOk   == commitOk /\ fault.at # "close"
    IN  [cursorOk |-> cursorOk, executeOk |-> executeOk, commitOk |-> commitOk,
         closeOk |-> closeOk,
         failed |-> IF ~cursorOk THEN "cursor" ELSE IF ~executeOk THEN "execute"
                    ELSE IF ~commitOk THEN "commit" ELSE IF ~closeOk THEN "close"
                    ELSE "none",
         txn |-> IF executeOk THEN data_list
                 ELSE IF cursorOk /\ w.state = "alive"
                      THEN SubSeq(data_list, 1, fault.k)
                 ELSE <<>>,
         \* rollback() itself raises on a handle that is not alive
         rollbackRaised |-> ~closeOk /\ w.state # "alive"]

\* A write that replaces the stored rows of the same (exchange, symbol)
\* instead of adding to them.
UpsertRows(tbl, rows) ==
    LET keys == { <<rows[i].exchange, rows[i].symbol>> : i \in DOMAIN rows }
        kept == { r \in BagToSet(tbl) : <<r.exchange, r.symbol>> \notin keys }
    IN  [r \in kept |-> tbl[r]] (+) SeqToBag(rows)

\* `INSERT INTO market_data (...) VALUES (...)` committed for rows: the table
\* has no key, each row is added to what is stored.
InsertRows(tbl, rows) == tbl (+) SeqToBag(rows)

\* insert_market_data_batch without its `if not data_list: return`.
insert_no_empty_guard(w, data_list, fault) ==
    LET st == InsertSteps(w, data_list, fault)
    IN  [raised |-> ~st.closeOk,
         failed |-> st.failed,
         committed |-> IF st.commitOk THEN st.txn ELSE <<>>,
         cursors |-> 1,
         executes |-> IF st.cursorOk THEN 1 ELSE 0,
         commits |-> IF st.executeOk THEN 1 ELSE 0,
         rollbacks |-> IF st.closeOk THEN 0 ELSE 1,
         rollbackRaised |-> st.rollbackRaised]

\* The same calls with the commit issued after every row instead of once
\* after executemany.
insert_commit_each_row(w, data_list, fault) ==
    LET st == InsertSteps(w, data_list, fault)
    IN  IF data_list = <<>>
        THEN [raised |-> FALSE, failed |-> "none", committed |-> <<>>,
              cursors |-> 0, executes |-> 0, commits |-> 0, rollbacks |-> 0,
              rollbackRaised |-> FALSE]
        ELSE [raised |-> ~st.closeOk,
              failed |-> st.failed,
              committed |-> st.txn,
              cursors |-> 1,
              executes |-> IF st.cursorOk THEN 1 ELSE 0,
              commits |-> Len(st.txn),
              rollbacks |-> IF st.closeOk THEN 0 ELSE 1,
              rollbackRaised |-> st.rollbackRaised]

\* An insert that first makes sure of its connection: it runs as on a live
\* handle whatever became of the one it was given.
insert_on_fresh_handle(w, data_list, fault) ==
    LET st == InsertSteps([w EXCEPT !.state = "alive"], data_list, fault)
    IN  IF data_list = <<>>
        THEN [raised |-> FALSE, failed |-> "none", committed |-> <<>>,
              cursors |-> 0, executes |-> 0, commits |-> 0, rollbacks |-> 0,
              rollbackRaised |-> FALSE]
        ELSE [raised |-> ~st.closeOk,
              failed |-> st.failed,
              committed |-> IF st.commitOk THEN st.txn ELSE <<>>,
              cursors |-> 1,
              executes |-> IF st.cursorOk THEN 1 ELSE 0,
              commits |-> IF st.executeOk THEN 1 ELSE 0,
              rollbacks |-> IF st.closeOk THEN 0 ELSE 1,
              rollbackRaised |-> st.rollbackRaised]

\* DatabaseWriter.insert_market_data_batch(data_list) on writer w:
\* committed is what the call added to the table.
insert_market_data_batch(w, data_list, fault) ==
    LET st == InsertSteps(w, data_list, fault)
    IN  IF data_list = <<>>
        THEN [raised |-> FALSE, failed |-> "none", committed |-> <<>>,
              cursors |-> 0, executes |-> 0, commits |-> 0, rollbacks |-> 0,
              rollbackRaised |-> FALSE]
        ELSE [raised |-> ~st.closeOk,
              failed |-> st.failed,
              committed |-> IF st.commitOk THEN st.txn ELSE <<>>,
              cursors |-> 1,
              executes |-> IF st.cursorOk THEN 1 ELSE 0,
              commits |-> IF st.executeOk THEN 1 ELSE 0,
              rollbacks |-> IF st.closeOk THEN 0 ELSE 1,
              rollbackRaised |-> st.rollbackRaised]

\* A close() that leaves the handle as it is.
close_nothing(w) == w

\* DatabaseWriter.close: `if self.conn: self.conn.close()`.
close(w) == IF w.conn # 0 THEN [w EXCEPT !.state = "closed"] ELSE w

\* `if results is not None:` where the code has `if results:`.
HasResults_not_none(r) == ~r.none

\* `if results:` in collect_data.
HasResults(r) == Truthy(r)

-----------------------------------------------------------------------------
(* The processes *)

NoInsert ==
    [called |-> FALSE, n |-> 0, handle |-> 0, live |-> FALSE, raised |-> FALSE,
     failed |-> "none",
     added |-> 0, cursors |-> 0, commits |-> 0, rollbacks |-> 0]

\* What a tick has done so far: before is the writer when the tick began,
\* ensured the writer ensure_connection left, attempts the requests made,
\* sleeps the backoff delays, last the outcome of the latest request and
\* allTimeout whether every request so far timed out.  For a writer driven
\* method by method: call is the method called last, ret what it returned
\* and raised whether it raised.
EvInit ==
    [before |-> NoWriter, ensured |-> NoWriter, probes |-> 0, closes |-> 0,
     connects |-> 0, attempts |-> 0, sleeps |-> <<>>, last |-> "none",
     allTimeout |-> TRUE, ins |-> NoInsert,
     call |-> "none", ret |-> FALSE, raised |-> FALSE]

\* No ClientSession yet; `async with aiohttp.ClientSession() as session`
\* makes a new one, leaving the block closes it.
NoSession == [id |-> 0, open |-> FALSE]

\* One session kept across ticks instead of a new one per collect_data.
reuse_session(s) == [s EXCEPT !.open = TRUE]

new_session(s) == [id |-> s.id + 1, open |-> TRUE]

close_session(s) == [s EXCEPT !.open = FALSE]

NoPayload == [source |-> "none"]
NoParsed == [outcome |-> "none"]
NoResponse == [endpoint |-> "none"]

Init ==
    /\ started \in {{c} : c \in Collectors}
    /\ pc = [c \in Collectors |-> IF c \in started THEN "start" ELSE "off"]
    /\ tick = [c \in Collectors |-> 0]
    /\ db = [c \in Collectors |-> NoWriter]
    /\ nconn = [c \in Collectors |-> 0]
    /\ retry_count = [c \in Collectors |-> 0]
    /\ results = [c \in Collectors |-> NoneResult]
    /\ table = EmptyBag
    /\ dbUp \in BOOLEAN
    /\ exc = [c \in Collectors |-> "none"]
    /\ ev = [c \in Collectors |-> EvInit]
    /\ session = [c \in Collectors |-> NoSession]
    /\ payload = NoPayload
    /\ parsed = NoParsed
    /\ response = NoResponse

\* Both collectors as tasks of one program: an exception that leaves one
\* ends the other with it.
Raise_both(c, w, e) ==
    /\ pc' = [o \in Collectors |-> "exited"]
    /\ exc' = [exc EXCEPT ![c] = e]
    /\ db' = [db EXCEPT ![c] = close(w)]
    /\ session' = [session EXCEPT ![c] = close_session(@)]

\* An exception leaves main(): the finally clause closes the writer and the
\* process ends.
Raise(c, w, e) ==
    /\ pc' = [pc EXCEPT ![c] = "exited"]
    /\ exc' = [exc EXCEPT ![c] = e]
    /\ db' = [db EXCEPT ![c] = close(w)]
    /\ session' = [session EXCEPT ![c] = close_session(@)]

\* main(): db_writer.connect() before the loop.
Main_connect(c) ==
    /\ pc[c] = "start"
    /\ LET con == connect(db[c], dbUp, nconn[c] + 1)
       IN  IF con.raised
           THEN /\ Raise(c, con.w, "connect")
                /\ UNCHANGED <<tick, nconn>>
           ELSE /\ pc' = [pc EXCEPT ![c] = "tick"]
                /\ tick' = [tick EXCEPT ![c] = 1]
                /\ db' = [db EXCEPT ![c] = con.w]
                /\ nconn' = [nconn EXCEPT ![c] = @ + 1]
                /\ UNCHANGED <<exc, session>>
    /\ UNCHANGED <<payload, response, parsed, started, retry_count, results, table, dbUp, ev>>

\* collect_data(): db_writer.ensure_connection(), then the session is opened
\* and fetch is called with retry_count = 0.
Collect_ensure(c) ==
    /\ pc[c] = "tick"
    /\ \E closeOk \in BOOLEAN :
         LET e == ensure_connection(db[c], dbUp, nconn[c] + 1, closeOk)
             made == e.connects = 1 /\ ~e.raised
         IN  /\ ev' = [ev EXCEPT ![c] =
                         [EvInit EXCEPT !.before = db[c], !.ensured = e.w,
                                        !.probes = e.probes, !.closes = e.closes,
                                        !.connects = e.connects]]
             /\ nconn' = [nconn EXCEPT ![c] = IF made THEN @ + 1 ELSE @]
             /\ IF e.raised
                THEN /\ Raise(c, e.w, "reconnect")
                     /\ UNCHANGED retry_count
                ELSE /\ pc' = [pc EXCEPT ![c] = "request"]
                     /\ db' = [db EXCEPT ![c] = e.w]
                     /\ retry_count' = [retry_count EXCEPT ![c] = 0]
                     /\ session' = [session EXCEPT ![c] = new_session(@)]
                     /\ UNCHANGED exc
    /\ UNCHANGED <<payload, response, parsed, started, tick, results, table, dbUp>>

\* What one pass of fetch_funding_rates can come to at retry depth rc in
\* the tick numbered now, over every response.
LighterFetches ==
    [rc \in 0..MAX_RETRIES, now \in 1..MaxTicks |->
        { fetch_funding_rates(resp, rc, now) : resp \in LighterResponses }]

\* What fetch_market_data can come to in the tick numbered now.
HyperliquidFetches ==
    [now \in 1..MaxTicks |->
        { fetch_market_data(resp, now) : resp \in HyperliquidResponses }]

\* fetch_funding_rates: one request and what the code does with its outcome.
Lighter_request(c) ==
    /\ c = "lighter"
    /\ pc[c] = "request"
    /\ \E f \in LighterFetches[retry_count[c], tick[c]] :
             /\ ev' = [ev EXCEPT ![c].attempts = @ + 1,
                                 ![c].last = f.outcome,
                                 ![c].allTimeout = @ /\ f.outcome = "timeout",
                                 ![c].sleeps = IF f.next = "sleep"
                                               THEN Append(@, f.delay) ELSE @]
             /\ IF f.next = "sleep"
                THEN /\ pc' = [pc EXCEPT ![c] = "backoff"]
                     /\ UNCHANGED results
                ELSE /\ pc' = [pc EXCEPT ![c] = "persist"]
                     /\ results' = [results EXCEPT ![c] = f.result]
    /\ UNCHANGED <<session, payload, response, parsed, started, tick, db, nconn, retry_count, table, dbUp, exc>>

\* fetch_funding_rates: the backoff sleep ends and the function calls itself
\* with retry_count + 1.
Lighter_backoff(c) ==
    /\ pc[c] = "backoff"
    /\ retry_count' = [retry_count EXCEPT ![c] = @ + 1]
    /\ pc' = [pc EXCEPT ![c] = "request"]
    /\ UNCHANGED <<session, payload, response, parsed, started, tick, db, nconn, results, table, dbUp, exc, ev>>

\* fetch_market_data: the one request of a hyperliquid tick.
Hyperliquid_request(c) ==
    /\ c = "hyperliquid"
    /\ pc[c] = "request"
    /\ \E f \in HyperliquidFetches[tick[c]] :
             /\ ev' = [ev EXCEPT ![c].attempts = @ + 1,
                                 ![c].last = f.outcome,
                                 ![c].allTimeout = FALSE]
             /\ results' = [results EXCEPT ![c] = f.result]
             /\ pc' = [pc EXCEPT ![c] = "persist"]
    /\ UNCHANGED <<session, payload, response, parsed, started, tick, db, nconn, retry_count, table, dbUp, exc>>

\* collect_data(): `if results: db_writer.insert_market_data_batch(...)`.
Collect_persist(c) ==
    /\ pc[c] = "persist"
    /\ IF HasResults(results[c])
       THEN \E fault \in Faults(Len(results[c].rows)) :
              LET data_list == results[c].rows
                  r == insert_market_data_batch(db[c], data_list, fault)
              IN  /\ table' = InsertRows(table, r.committed)
                  /\ ev' = [ev EXCEPT ![c].ins =
                              [called |-> TRUE, n |-> Len(data_list),
                               handle |-> db[c].conn,
                               live |-> db[c].state = "alive",
                               raised |-> r.raised,
                               failed |-> r.failed, added |-> Len(r.committed),
                               cursors |-> r.cursors, commits |-> r.commits,
                               rollbacks |-> r.rollbacks]]
                  /\ IF r.raised
                     THEN Raise(c, db[c], "insert")
                     ELSE /\ pc' = [pc EXCEPT ![c] = "sleep"]
                          /\ session' = [session EXCEPT ![c] = close_session(@)]
                          /\ UNCHANGED <<db, exc>>
       ELSE /\ pc' = [pc EXCEPT ![c] = "sleep"]
            /\ session' = [session EXCEPT ![c] = close_session(@)]
            /\ UNCHANGED <<db, exc, table, ev>>
    /\ UNCHANGED <<payload, response, parsed, started, tick, nconn, retry_count, results, dbUp>>

\* main(): asyncio.sleep(COLLECTION_INTERVAL) ends and the loop starts over.
Main_sleep(c) ==
    /\ pc[c] = "sleep"
    /\ tick[c] < MaxTicks
    /\ tick' = [tick EXCEPT ![c] = @ + 1]
    /\ pc' = [pc EXCEPT ![c] = "tick"]
    /\ UNCHANGED <<session, payload, response, parsed, started, db, nconn, retry_count, results, table, dbUp, exc, ev>>

\* The task running main() is cancelled (Ctrl-C under asyncio.run, or
\* task.cancel()) while it waits in an await: the request, the backoff
\* sleep or the interval sleep. CancelledError is not an Exception, so no
\* handler of the collector catches it: it leaves the `async with` block,
\* if it is inside one, and main()'s try, whose finally closes the writer.
Cancel(c) ==
    /\ pc[c] \in {"request", "backoff", "sleep"}
    /\ Raise(c, db[c], "cancelled")
    /\ UNCHANGED <<payload, response, parsed, started, tick, nconn, retry_count, results, table, dbUp, ev>>

(* The environment *)

\* The server side of a collector's connection goes away.
ConnLost(c) ==
    /\ pc[c] \notin {"off", "start", "exited"}
    /\ db[c].state = "alive"
    /\ db' = [db EXCEPT ![c].state = "broken"]
    /\ UNCHANGED <<session, payload, response, parsed, started, pc, tick, nconn, retry_count, results, table, dbUp, exc, ev>>

\* The database stops or starts accepting connections.
DbDown ==
    /\ dbUp
    /\ dbUp' = FALSE
    /\ UNCHANGED <<session, payload, response, parsed, started, pc, tick, db, nconn, retry_count, results, table, exc, ev>>

DbBack ==
    /\ ~dbUp
    /\ dbUp' = TRUE
    /\ UNCHANGED <<session, payload, response, parsed, started, pc, tick, db, nconn, retry_count, results, table, exc, ev>>

Next ==
    \/ \E c \in Collectors :
         \/ Main_connect(c)
         \/ Collect_ensure(c)
         \/ Lighter_request(c)
         \/ Lighter_backoff(c)
         \/ Hyperliquid_request(c)
         \/ Collect_persist(c)
         \/ Main_sleep(c)
         \/ Cancel(c)
         \/ ConnLost(c)
    \/ DbDown
    \/ DbBack

Spec == Init /\ [][Next]_vars

\* Every request ends -- with a response, an exception or the
\* ClientTimeout(total=TIMEOUT) -- and every backoff sleep ends. Nothing
\* obliges the task to be cancelled.
FairSpec ==
    /\ Spec
    /\ \A c \in Collectors :
          /\ WF_vars(Lighter_request(c))
          /\ WF_vars(Hyperliquid_request(c))
          /\ WF_vars(Lighter_backoff(c))

\* Both collectors running, each its own process (`asyncio.run(main())` of
\* its own script) with its own DatabaseWriter, against one database that
\* stays up. The ticks of the two together are capped.
MaxBothTicks == MaxTicks + 1

InitBoth ==
    /\ started = Collectors
    /\ pc = [c \in Collectors |-> "start"]
    /\ tick = [c \in Collectors |-> 0]
    /\ db = [c \in Collectors |-> NoWriter]
    /\ nconn = [c \in Collectors |-> 0]
    /\ retry_count = [c \in Collectors |-> 0]
    /\ results = [c \in Collectors |-> NoneResult]
    /\ table = EmptyBag
    /\ dbUp = TRUE
    /\ exc = [c \in Collectors |-> "none"]
    /\ ev = [c \in Collectors |-> EvInit]
    /\ session = [c \in Collectors |-> NoSession]
    /\ payload = NoPayload
    /\ parsed = NoParsed
    /\ response = NoResponse

Both_sleep(c) ==
    /\ tick["lighter"] + tick["hyperliquid"] < MaxBothTicks
    /\ Main_sleep(c)

NextBoth ==
    \E c \in Collectors :
         \/ Main_connect(c)
         \/ Collect_ensure(c)
         \/ Lighter_request(c)
         \/ Lighter_backoff(c)
         \/ Hyperliquid_request(c)
         \/ Collect_persist(c)
         \/ Both_sleep(c)
         \/ Cancel(c)

BothSpec == InitBoth /\ [][NextBoth]_vars

-----------------------------------------------------------------------------
(* The DatabaseWriter on its own, its methods called in any order on any   *)
(* state of the handle, as tests/test_database_writer.py drives it.        *)

InitWriter ==
    /\ started = {"hyperliquid"}
    /\ pc = [c \in Collectors |-> IF c \in started THEN "test" ELSE "off"]
    /\ tick = [c \in Collectors |-> 0]
    /\ db = [c \in Collectors |-> NoWriter]
    /\ nconn = [c \in Collectors |-> 0]
    /\ retry_count = [c \in Collectors |-> 0]
    /\ results = [c \in Collectors |-> NoneResult]
    /\ table = EmptyBag
    /\ dbUp \in BOOLEAN
    /\ exc = [c \in Collectors |-> "none"]
    /\ ev = [c \in Collectors |-> EvInit]
    /\ session = [c \in Collectors |-> NoSession]
    /\ payload = NoPayload
    /\ parsed = NoParsed
    /\ response = NoResponse

W_connect(c) ==
    /\ pc[c] = "test"
    /\ nconn[c] < MaxConnects
    /\ LET con == connect(db[c], dbUp, nconn[c] + 1)
       IN  /\ db' = [db EXCEPT ![c] = con.w]
           /\ nconn' = [nconn EXCEPT ![c] = IF con.raised THEN @ ELSE @ + 1]
           /\ ev' = [ev EXCEPT ![c] =
                       [EvInit EXCEPT !.call = "connect", !.before = db[c],
                                      !.ensured = con.w, !.connects = 1,
                                      !.raised = con.raised]]
    /\ UNCHANGED <<session, payload, response, parsed, started, pc, tick, retry_count, results, table, dbUp, exc>>

W_is_connected(c) ==
    /\ pc[c] = "test"
    /\ LET r == is_connected(db[c])
       IN  /\ db' = [db EXCEPT ![c] = r.w]
           /\ ev' = [ev EXCEPT ![c] =
                       [EvInit EXCEPT !.call = "is_connected", !.before = db[c],
                                      !.ensured = r.w, !.probes = r.probes,
                                      !.ret = r.ret, !.raised = r.raised]]
    /\ UNCHANGED <<session, payload, response, parsed, started, pc, tick, nconn, retry_count, results, table, dbUp, exc>>

W_ensure_connection(c) ==
    /\ pc[c] = "test"
    /\ nconn[c] < MaxConnects
    /\ \E closeOk \in BOOLEAN :
         LET e == ensure_connection(db[c], dbUp, nconn[c] + 1, closeOk)
         IN  /\ db' = [db EXCEPT ![c] = e.w]
             /\ nconn' = [nconn EXCEPT ![c] =
                            IF e.connects = 1 /\ ~e.raised THEN @ + 1 ELSE @]
             /\ ev' = [ev EXCEPT ![c] =
                         [EvInit EXCEPT !.call = "ensure_connection",
                                        !.before = db[c], !.ensured = e.w,
                                        !.probes = e.probes, !.closes = e.closes,
                                        !.connects = e.connects,
                                        !.raised = e.raised]]
    /\ UNCHANGED <<session, payload, response, parsed, started, pc, tick, retry_count, results, table, dbUp, exc>>

W_close(c) ==
    /\ pc[c] = "test"
    /\ db' = [db EXCEPT ![c] = close(db[c])]
    /\ ev' = [ev EXCEPT ![c] =
                [EvInit EXCEPT !.call = "close", !.before = db[c],
                               !.ensured = close(db[c]),
                               !.closes = IF db[c].conn # 0 THEN 1 ELSE 0]]
    /\ UNCHANGED <<session, payload, response, parsed, started, pc, tick, nconn, retry_count, results, table, dbUp, exc>>

\* The batches the writer is handed on its own: none, one row, two rows
\* of one market, two markets.
WriterBatches ==
    { <<>>,
      <<Row(1, "hyperliquid", "BTC")>>,
      <<Row(1, "hyperliquid", "BTC"), Row(1, "hyperliquid", "ETH")>>,
      <<Row(2, "hyperliquid", "BTC")>> }

W_insert(c) ==
    /\ pc[c] = "test"
    /\ \E data_list \in WriterBatches :
       \E fault \in Faults(Len(data_list)) :
         LET r == insert_market_data_batch(db[c], data_list, fault)
         IN  /\ BagCardinality(table) + Len(data_list) <= MaxRows
             /\ table' = InsertRows(table, r.committed)
             /\ ev' = [ev EXCEPT ![c] =
                         [EvInit EXCEPT !.call = "insert", !.before = db[c],
                                        !.ensured = db[c], !.raised = r.raised,
                                        !.ins =
                            [called |-> TRUE, n |-> Len(data_list),
                             handle |-> db[c].conn,
                               live |-> db[c].state = "alive",
                               raised |-> r.raised,
                             failed |-> r.failed, added |-> Len(r.committed),
                             cursors |-> r.cursors, commits |-> r.commits,
                             rollbacks |-> r.rollbacks]]]
    /\ UNCHANGED <<session, payload, response, parsed, started, pc, tick, db, nconn, retry_count, results, dbUp, exc>>

NextWriter ==
    \/ \E c \in Collectors :
         \/ W_insert(c)
         \/ W_connect(c)
         \/ W_is_connected(c)
         \/ W_ensure_connection(c)
         \/ W_close(c)
         \/ ConnLost(c)
    \/ DbDown
    \/ DbBack

WriterSpec == InitWriter /\ [][NextWriter]_vars

-----------------------------------------------------------------------------
(* The two parsers on their own: a payload is drawn, then handed to the    *)
(* collector's fetch path as the body of a 200 response and to its         *)
(* parse_response directly.                                                *)

\* Aggregator records: every venue of EXCHANGE_MAP and one outside it, two
\* rates, a second symbol, a rate sent as a string, as null and as text
\* that spells no number, and a record short of each required field.
ParseRecordPool ==
    { [fields |-> RequiredFields, exchange |-> e, symbol |-> "BTC", rate |-> JNum(r)] :
        e \in {"binance", "bybit", "hyperliquid", "lighter", "dydx"}, r \in {1, 2} }
    \cup
    { [fields |-> RequiredFields, exchange |-> "binance", symbol |-> "ETH",
       rate |-> v] : v \in {JStr(3), JNull, JText} }
    \cup
    { [fields |-> RequiredFields \ {f}, exchange |-> "binance", symbol |-> "BTC",
       rate |-> JNum(1)] : f \in RequiredFields }
    \cup
    \* a venue sent under the name EXCHANGE_MAP gives to another
    { [fields |-> RequiredFields, exchange |-> "binance_lighter", symbol |-> "BTC",
       rate |-> JNum(1)] }
    \cup
    \* the keys are there, a value is null
    { [fields |-> RequiredFields, exchange |-> PyNone, symbol |-> "BTC",
       rate |-> JNum(1)],
      [fields |-> RequiredFields, exchange |-> "binance", symbol |-> PyNone,
       rate |-> JNum(1)] }

ParseLighterPayloads ==
    { WellFormed(recs) : recs \in SeqsUpTo(ParseRecordPool, MaxRecs) }
    \cup
    { [isDict |-> FALSE, keys |-> {}, isList |-> FALSE, recs |-> <<>>],
      [isDict |-> TRUE, keys |-> {}, isList |-> FALSE, recs |-> <<>>],
      [isDict |-> TRUE, keys |-> {"code"}, isList |-> FALSE, recs |-> <<>>],
      [isDict |-> TRUE, keys |-> {"code", "funding_rates"}, isList |-> FALSE,
       recs |-> <<>>] }
    \cup
    { [isDict |-> TRUE, keys |-> {"funding_rates"}, isList |-> TRUE, recs |-> <<r>>] :
        r \in {x \in ParseRecordPool : x.fields = RequiredFields /\ x.rate = JNum(1)} }

\* Market contexts: the usual one, one with other values and a single
\* impact price, one whose values are missing, null, '' and 0 with no
\* impactPxs, one with text for funding, one with a null impact price.
OtherCtx ==
    [markPx |-> JStr(200), dayNtlVlm |-> JStr(6), openInterest |-> JStr(8),
     funding |-> JStr(2),
     impactPxs |-> [present |-> TRUE, items |-> <<JStr(199)>>]]

SparseCtx ==
    [markPx |-> JNull, dayNtlVlm |-> JEmpty, openInterest |-> JNum(0),
     funding |-> JMissing,
     impactPxs |-> [present |-> FALSE, items |-> <<>>]]

NullPxCtx == [OkCtx EXCEPT !.impactPxs = [present |-> TRUE, items |-> <<JNull, JStr(101)>>]]

\* Impact prices with the first above the second, and an empty array.
InvertedCtx == [OkCtx EXCEPT !.impactPxs = [present |-> TRUE, items |-> <<JStr(101), JStr(99)>>]]

EmptyPxCtx == [OkCtx EXCEPT !.impactPxs = [present |-> TRUE, items |-> <<>>]]

ParseContexts == {OkCtx, OtherCtx, SparseCtx, BadCtx, NullPxCtx}

ParseHyperliquidPayloads ==
    { [len |-> 2, hasUniverse |-> TRUE, universe |-> u, market |-> m] :
        u \in SeqsUpTo({"BTC", "ETH"}, MaxLen),
        m \in SeqsUpTo(ParseContexts, MaxLen) }
    \cup
    { [len |-> 0, hasUniverse |-> FALSE, universe |-> <<>>, market |-> <<>>],
      [len |-> 1, hasUniverse |-> TRUE, universe |-> <<"BTC">>, market |-> <<>>],
      [len |-> 2, hasUniverse |-> FALSE, universe |-> <<>>, market |-> <<OkCtx>>] }
    \cup
    { [len |-> 2, hasUniverse |-> TRUE, universe |-> u, market |-> m] :
        u \in {<<"BTC">>, <<"BTC", "ETH">>},
        m \in SeqsUpTo({OkCtx, InvertedCtx, EmptyPxCtx}, 2) }
    \cup
    \* a universe entry whose name is null
    { [len |-> 2, hasUniverse |-> TRUE, universe |-> <<PyNone>>, market |-> <<OkCtx>>],
      [len |-> 2, hasUniverse |-> TRUE, universe |-> <<"BTC", PyNone>>,
       market |-> <<OkCtx, OtherCtx>>] }

Http200(data) == [type |-> "http", status |-> 200, data |-> data]

InitParse ==
    /\ started = {}
    /\ pc = [c \in Collectors |-> "off"]
    /\ tick = [c \in Collectors |-> 0]
    /\ db = [c \in Collectors |-> NoWriter]
    /\ nconn = [c \in Collectors |-> 0]
    /\ retry_count = [c \in Collectors |-> 0]
    /\ results = [c \in Collectors |-> NoneResult]
    /\ table = EmptyBag
    /\ dbUp = TRUE
    /\ exc = [c \in Collectors |-> "none"]
    /\ ev = [c \in Collectors |-> EvInit]
    /\ session = [c \in Collectors |-> NoSession]
    /\ payload \in
          { [source |-> "lighter", data |-> d] : d \in ParseLighterPayloads }
          \cup
          { [source |-> "hyperliquid", data |-> d] : d \in ParseHyperliquidPayloads }
    /\ parsed = NoParsed
    /\ response = NoResponse

\* fetch_funding_rates on a 200 response carrying the payload, at each
\* retry depth, and validate_response and parse_response called on it.
P_lighter ==
    /\ payload.source = "lighter"
    /\ parsed.outcome = "none"
    /\ \E now \in 1..MaxTicks, rc \in {0, MAX_RETRIES} :
         parsed' = [outcome |-> "lighter", now |-> now, rc |-> rc,
                    valid |-> validate_response(payload.data),
                    parse |-> Lighter_parse_response(payload.data, now),
                    fetch |-> fetch_funding_rates(Http200(payload.data), rc, now)]
    /\ UNCHANGED <<session, payload, response, started, pc, tick, db, nconn, retry_count, results, table, dbUp, exc, ev>>

\* fetch_market_data on a 200 response carrying the payload, and
\* parse_response called on it.
P_hyperliquid ==
    /\ payload.source = "hyperliquid"
    /\ parsed.outcome = "none"
    /\ \E now \in 1..MaxTicks :
         parsed' = [outcome |-> "hyperliquid", now |-> now, rc |-> 0,
                    valid |-> "True",
                    parse |-> Hyperliquid_parse_response(payload.data, now),
                    fetch |-> fetch_market_data(Http200(payload.data), now)]
    /\ UNCHANGED <<session, payload, response, started, pc, tick, db, nconn, retry_count, results, table, dbUp, exc, ev>>

NextParse == P_lighter \/ P_hyperliquid

ParseSpec == InitParse /\ [][NextParse]_vars

-----------------------------------------------------------------------------
(* The API (src/api/main.py): the aggregation query of its two endpoints   *)
(* and what each endpoint makes of the query's rows.  Time is counted in   *)
(* days, rates in whole units.                                             *)

\* `INTERVAL '3 days'`.
WindowDays == 3

\* The stored rows one by one: a row stored n times is n rows.
TableCopies(tbl) ==
    UNION { { [row |-> r, copy |-> k] : k \in 1..tbl[r] } : r \in BagToSet(tbl) }

\* The same selection without `AND funding_rate IS NOT NULL`.
recent_data_with_nulls(tbl, now, venue) ==
    { x \in TableCopies(tbl) :
        /\ venue # "*" => x.row.exchange = venue
        /\ x.row.time > now - WindowDays }

\* WITH recent_data AS (... WHERE [exchange = 'hyperliquid' AND]
\* time > NOW() - INTERVAL '3 days' AND funding_rate IS NOT NULL);
\* venue is "*" for the query without the exchange condition.
recent_data(tbl, now, venue) ==
    { x \in TableCopies(tbl) :
        /\ venue # "*" => x.row.exchange = venue
        /\ x.row.time > now - WindowDays
        /\ x.row.funding_rate.has }

PartitionKey(x) == <<x.row.exchange, x.row.symbol>>

\* `WHERE rn <= 144` on ROW_NUMBER() OVER (PARTITION BY ... ORDER BY time
\* DESC): the rows of a partition numbered up to the limit. Rows of equal
\* time are numbered in an order SQL does not fix, so there may be several
\* such sets.
NumberedFirst(part) ==
    { T \in SUBSET part :
        /\ Cardinality(T) = Min(RowLimit, Cardinality(part))
        /\ \A x \in T, y \in part \ T : x.row.time >= y.row.time }

RECURSIVE SumRates(_)
SumRates(T) ==
    IF T = {} THEN 0
    ELSE LET x == CHOOSE y \in T : TRUE
         IN  x.row.funding_rate.val + SumRates(T \ {x})

\* One row of the outer SELECT: AVG(funding_rate) kept exact as sum over
\* COUNT(*).
GroupRow(k, T) ==
    [exchange |-> k[1], symbol |-> k[2], sum |-> SumRates(T),
     data_points |-> Cardinality(T)]

\* GROUP BY over the numbered rows: one row per partition, for every way
\* the numbering can fall.
RECURSIVE GroupBy(_, _)
GroupBy(keys, rd) ==
    IF keys = {} THEN {{}}
    ELSE LET k == CHOOSE q \in keys : TRUE
             part == {x \in rd : PartitionKey(x) = k}
         IN  { G \cup {GroupRow(k, T)} :
                 G \in GroupBy(keys \ {k}, rd), T \in NumberedFirst(part) }

AvgLeq(a, b) == a.sum * b.data_points <= b.sum * a.data_points

\* Text order of the venue names, as ORDER BY exchange sorts them.
Collation ==
    <<"binance_lighter", "bybit_lighter", "dydx", "hyperliquid",
      "hyperliquid_lighter", "lighter">>

Rank(e) == CHOOSE i \in DOMAIN Collation : Collation[i] = e

\* ORDER BY [exchange,] avg ASC: a is allowed before b.
OrderLeq(a, b, byExchange) ==
    IF byExchange /\ a.exchange # b.exchange
    THEN Rank(a.exchange) < Rank(b.exchange)
    ELSE AvgLeq(a, b)

\* The orders in which the query may return the rows G: ties fall either
\* way.
RECURSIVE OrderBy(_, _)
OrderBy(G, byExchange) ==
    IF G = {} THEN {<<>>}
    ELSE UNION { { <<m>> \o t : t \in OrderBy(G \ {m}, byExchange) } :
                   m \in { g \in G : \A h \in G : OrderLeq(g, h, byExchange) } }

\* cursor.fetchall() of the aggregation query: every list of rows the
\* database may answer with.
fetchall(tbl, now, venue) ==
    LET rd == recent_data(tbl, now, venue)
    IN  UNION { OrderBy(G, venue = "*") :
                  G \in GroupBy({PartitionKey(x) : x \in rd}, rd) }

\* float(row['funding_3d_avg']): a float keeps a bounded number of digits,
\* here the whole units, so that two different means may become one float.
Float(g) == g.sum \div g.data_points

Reverse(seq) == [i \in 1..Len(seq) |-> seq[Len(seq) + 1 - i]]

Take(seq, n) == SubSeq(seq, 1, Min(n, Len(seq)))

\* No sorting on the application side: the query's order is kept.
sorted_as_queried(seq, reverse) == seq

\* sorted(seq, key=lambda x: x['avg_funding_rate'], reverse=reverse): the
\* sort is stable, also when reversed.
RECURSIVE sorted(_, _)
sorted(seq, reverse) ==
    IF seq = <<>> THEN <<>>
    ELSE LET n    == Len(seq)
             x    == seq[n]
             init == sorted(SubSeq(seq, 1, n - 1), reverse)
             pos  == Cardinality({ i \in 1..(n - 1) :
                        IF reverse
                        THEN init[i].avg_funding_rate >= x.avg_funding_rate
                        ELSE init[i].avg_funding_rate <= x.avg_funding_rate })
         IN  SubSeq(init, 1, pos) \o <<x>> \o SubSeq(init, pos + 1, n - 1)

\* The body get_funding_rates builds from the query's rows.
get_funding_rates(rows) ==
    LET all_symbols == [i \in 1..Len(rows) |->
                          [symbol |-> rows[i].symbol,
                           funding_3d_avg |-> Float(rows[i]),
                           data_points |-> rows[i].data_points]]
        n == Len(all_symbols)
    IN  [top_10_long  |-> IF n >= TopN THEN SubSeq(all_symbols, 1, TopN)
                          ELSE all_symbols,
         top_10_short |-> IF n >= TopN
                          THEN Reverse(SubSeq(all_symbols, n - TopN + 1, n))
                          ELSE <<>>]

\* `exchanges = [...]` in get_funding_rates_by_exchange.
exchanges ==
    <<"binance_lighter", "bybit_lighter", "hyperliquid_lighter", "lighter",
      "hyperliquid">>

\* A body with a key for every venue the query returned, listed or not.
by_exchange_every_venue(rows) ==
    LET all_data == [i \in 1..Len(rows) |->
                       [exchange |-> rows[i].exchange,
                        symbol |-> rows[i].symbol,
                        avg_funding_rate |-> Float(rows[i]),
                        data_points |-> rows[i].data_points]]
    IN  [exchange \in {exchanges[i] : i \in DOMAIN exchanges}
                         \cup {rows[i].exchange : i \in 1..Len(rows)} |->
           LET exchange_data == SelectSeq(all_data, LAMBDA r : r.exchange = exchange)
           IN  [long_opportunities  |-> Take(sorted(exchange_data, FALSE), TopN),
                short_opportunities |-> Take(sorted(exchange_data, TRUE), TopN)]]

\* A body that holds a key only for the venues the query returned.
by_exchange_with_data_only(rows) ==
    LET all_data == [i \in 1..Len(rows) |->
                       [exchange |-> rows[i].exchange,
                        symbol |-> rows[i].symbol,
                        avg_funding_rate |-> Float(rows[i]),
                        data_points |-> rows[i].data_points]]
    IN  [exchange \in {exchanges[i] : i \in DOMAIN exchanges}
                         \cap {rows[i].exchange : i \in 1..Len(rows)} |->
           LET exchange_data == SelectSeq(all_data, LAMBDA r : r.exchange = exchange)
           IN  [long_opportunities  |-> Take(sorted(exchange_data, FALSE), TopN),
                short_opportunities |-> Take(sorted(exchange_data, TRUE), TopN)]]

\* The body get_funding_rates_by_exchange builds from the query's rows,
\* without its 'last_updated' key.
get_funding_rates_by_exchange(rows) ==
    LET all_data == [i \in 1..Len(rows) |->
                       [exchange |-> rows[i].exchange,
                        symbol |-> rows[i].symbol,
                        avg_funding_rate |-> Float(rows[i]),
                        data_points |-> rows[i].data_points]]
    IN  [exchange \in {exchanges[i] : i \in DOMAIN exchanges} |->
           LET exchange_data == SelectSeq(all_data, LAMBDA r : r.exchange = exchange)
           IN  [long_opportunities  |-> Take(sorted(exchange_data, FALSE), TopN),
                short_opportunities |-> Take(sorted(exchange_data, TRUE), TopN)]]

\* NOW() when the query runs.
Now == 10

ApiRow(t, e, s, fr) == Record(t, e, s, Absent, Absent, Absent, fr, Absent, Absent)

\* Stored rows to draw tables from: one market of hyperliquid on the edge
\* of the window, inside it (two of one time), and with a null rate as
\* its latest row; two more markets; three markets of binance_lighter; a
\* venue the API does not list; a venue with a null rate only.
ApiRowPool ==
    { ApiRow(Now - WindowDays, "hyperliquid", "BTC", Dec(9)),
      ApiRow(8, "hyperliquid", "BTC", Dec(-5)),
      ApiRow(9, "hyperliquid", "BTC", Dec(3)),
      ApiRow(9, "hyperliquid", "BTC", Dec(4)),
      ApiRow(Now, "hyperliquid", "BTC", Absent),
      ApiRow(9, "hyperliquid", "ETH", Dec(3)),
      ApiRow(9, "hyperliquid", "SOL", Dec(-2)),
      ApiRow(9, "binance_lighter", "BTC", Dec(1)),
      ApiRow(9, "binance_lighter", "ETH", Dec(-1)),
      ApiRow(8, "binance_lighter", "SOL", Dec(2)),
      ApiRow(9, "dydx", "BTC", Dec(1)),
      ApiRow(9, "lighter", "BTC", Absent) }

\* The tables: up to MaxTableRows rows of the pool, one of them possibly
\* stored twice.
ApiTables ==
    LET sets == { S \in SUBSET ApiRowPool : Cardinality(S) <= MaxTableRows }
    IN  { SetToBag(S) : S \in sets }
        \cup
        { SetToBag(S) (+) SetToBag({r}) :
            S \in { T \in sets : Cardinality(T) < MaxTableRows }, r \in ApiRowPool }

InitApi ==
    /\ started = {}
    /\ pc = [c \in Collectors |-> "off"]
    /\ tick = [c \in Collectors |-> 0]
    /\ db = [c \in Collectors |-> NoWriter]
    /\ nconn = [c \in Collectors |-> 0]
    /\ retry_count = [c \in Collectors |-> 0]
    /\ results = [c \in Collectors |-> NoneResult]
    /\ table \in ApiTables
    /\ dbUp \in BOOLEAN
    /\ exc = [c \in Collectors |-> "none"]
    /\ ev = [c \in Collectors |-> EvInit]
    /\ session = [c \in Collectors |-> NoSession]
    /\ payload = NoPayload
    /\ parsed = NoParsed
    /\ response = NoResponse

\* GET /api/funding-rates: the body on the rows the query returned, or 500
\* when the connection or the query fails.
Api_get_funding_rates ==
    /\ response.endpoint = "none"
    /\ IF dbUp
       THEN \E rows \in fetchall(table, Now, "hyperliquid") :
              response' = [endpoint |-> "funding-rates", status |-> 200,
                           results |-> rows, body |-> get_funding_rates(rows)]
       ELSE response' = [endpoint |-> "funding-rates", status |-> 500,
                         results |-> <<>>, body |-> <<>>]
    /\ UNCHANGED <<session, payload, parsed, started, pc, tick, db, nconn, retry_count, results, table, dbUp, exc, ev>>

\* GET /api/funding-rates-by-exchange.
Api_get_funding_rates_by_exchange ==
    /\ response.endpoint = "none"
    /\ IF dbUp
       THEN \E rows \in fetchall(table, Now, "*") :
              response' = [endpoint |-> "funding-rates-by-exchange", status |-> 200,
                           results |-> rows,
                           body |-> get_funding_rates_by_exchange(rows)]
       ELSE response' = [endpoint |-> "funding-rates-by-exchange", status |-> 500,
                         results |-> <<>>, body |-> <<>>]
    /\ UNCHANGED <<session, payload, parsed, started, pc, tick, db, nconn, retry_count, results, table, dbUp, exc, ev>>

NextApi == Api_get_funding_rates \/ Api_get_funding_rates_by_exchange

ApiSpec == InitApi /\ [][NextApi]_vars

-----------------------------------------------------------------------------
(* Claims *)

\* The insert of the current tick failed before its commit completed.
InsertFailedEarly(c) ==
    ev[c].ins.called /\ ev[c].ins.failed \in {"cursor", "execute", "commit"}

\* C1: when insert_market_data_batch fails inside a tick, the batch is rolled
\* back (rollback called, no row added) and the loop is not terminated: the
\* collector goes on to the interval sleep.
C1_PersistFailureKeepsLoop ==
    \A c \in Collectors :
        InsertFailedEarly(c) =>
            /\ ev[c].ins.rollbacks = 1
            /\ ev[c].ins.added = 0
            /\ pc[c] # "exited"

\* C2: a batch insert of N >= 1 rows is atomic.  Every step that leaves
\* "persist" with a non-empty result calls the insert once, with at most one
\* commit; if it fails before the commit completes, rollback is called, the
\* error leaves collect_data and the table is unchanged; if it succeeds, there
\* was exactly one commit and the table has gained exactly the N rows.
C2_InsertBatchAtomic ==
    [][\A c \in Collectors :
         (pc[c] = "persist" /\ pc'[c] # "persist" /\ Len(results[c].rows) >= 1) =>
            LET i == ev'[c].ins
            IN  /\ i.called /\ i.n = Len(results[c].rows)
                /\ i.cursors = 1 /\ i.commits <= 1
                /\ (i.failed \in {"cursor", "execute", "commit"} =>
                       /\ i.rollbacks = 1
                       /\ i.raised /\ exc'[c] = "insert"
                       /\ table' = table)
                /\ (i.failed = "none" =>
                       /\ i.commits = 1 /\ i.rollbacks = 0
                       /\ ~i.raised /\ exc'[c] = "none"
                       /\ table' = table (+) SeqToBag(results[c].rows)
                       /\ BagCardinality(table') = BagCardinality(table) + i.n)
    ]_vars

\* C2 witness: a batch of two rows failed in executemany and the error ended
\* main().
C2_Witness ==
    \E c \in Collectors :
        /\ ev[c].ins.called /\ ev[c].ins.n = 2
        /\ ev[c].ins.failed = "execute"
        /\ ev[c].ins.added = 0
        /\ exc[c] = "insert"

\* C3: after a response that fails validation, fetch_funding_rates starts no
\* backoff sleep (and so makes no further request).
C3_ValidationNotRetried ==
    \A c \in Collectors :
        ev[c].last = "invalid" => pc[c] # "backoff"

\* C4: when every request of a fetch times out, the fetch makes exactly
\* MAX_RETRIES retries after the first attempt (MAX_RETRIES + 1 requests,
\* MAX_RETRIES sleeps), then returns None, and no exception leaves main().
C4_TimeoutsExhaustRetries ==
    \A c \in Collectors :
        (ev[c].allTimeout /\ ev[c].attempts >= 1) =>
            /\ exc[c] \in {"none", "cancelled"}
            /\ ev[c].attempts <= MAX_RETRIES + 1
            /\ retry_count[c] <= MAX_RETRIES
            /\ (pc[c] \in {"persist", "sleep"} =>
                   /\ ev[c].attempts = MAX_RETRIES + 1
                   /\ Len(ev[c].sleeps) = MAX_RETRIES
                   /\ retry_count[c] = MAX_RETRIES
                   /\ results[c] = NoneResult)

\* C4 witness: a fetch returned after four timeouts.
C4_Witness ==
    \E c \in Collectors :
        /\ pc[c] = "persist"
        /\ ev[c].allTimeout
        /\ ev[c].attempts = MAX_RETRIES + 1
        /\ results[c] = NoneResult

\* C5: when the fetch of a tick returned None or an empty mapping, the step
\* that leaves "persist" calls no insert, leaves the table unchanged and goes
\* to the interval sleep, after which the next tick can start.
C5_NoDataSkipsInsert ==
    /\ [][\A c \in Collectors :
            (pc[c] = "persist" /\ pc'[c] # "persist"
             /\ (results[c].none \/ results[c].rows = <<>>)) =>
                /\ pc'[c] = "sleep"
                /\ ~ev'[c].ins.called
                /\ exc'[c] = "none"
                /\ table' = table
         ]_vars
    /\ [](\A c \in Collectors :
            (pc[c] = "sleep" /\ tick[c] < MaxTicks) => ENABLED Main_sleep(c))

\* C5 witness: a tick whose fetch returned an empty mapping has reached the
\* interval sleep without an insert.
C5_Witness ==
    \E c \in Collectors :
        /\ pc[c] = "sleep"
        /\ ~results[c].none /\ results[c].rows = <<>>
        /\ ~ev[c].ins.called

\* The tick found the handle dead and its reconnect failed.
ReconnectFailed(c) ==
    /\ ev[c].before.conn # 0
    /\ ev[c].connects = 1
    /\ ev[c].ensured.conn = ev[c].before.conn

\* C6: when ensure_connection finds the handle dead and the reconnect fails,
\* the collection loop keeps running.
C6_ReconnectFailureKeepsLoop ==
    \A c \in Collectors :
        (pc[c] # "test" /\ ReconnectFailed(c)) => pc[c] # "exited"

\* C7: a non-200 status is retried: the fetch returns after a non-200 status
\* only once the maximum number of attempts is used up.
C7_Non200Retried ==
    (pc["lighter"] = "persist" /\ ev["lighter"].last = "status") =>
        ev["lighter"].attempts = MAX_RETRIES + 1

\* C8: a tick that starts with a dead handle while the database is up
\* reconnects (a new, live handle; main() goes on to the fetch), and an insert
\* always runs on the handle ensure_connection left for its tick.
C8_DeadHandleSelfHeals ==
    /\ [][\A c \in Collectors :
            (pc[c] = "tick" /\ pc'[c] # "tick" /\ db[c].state # "alive" /\ dbUp) =>
                /\ pc'[c] = "request"
                /\ exc'[c] = "none"
                /\ db'[c].state = "alive"
                /\ db'[c].conn # db[c].conn
                /\ is_connected(db'[c]).ret
         ]_vars
    /\ [](\A c \in Collectors :
            ev[c].ins.called => ev[c].ins.handle = ev[c].ensured.conn)

\* C8 witness: the second tick began with a broken handle, reconnected and
\* its insert committed on the new handle.
C8_Witness ==
    \E c \in Collectors :
        /\ tick[c] = 2
        /\ ev[c].before.state = "broken"
        /\ ev[c].ins.called /\ ~ev[c].ins.raised /\ ev[c].ins.added >= 1
        /\ ev[c].ins.handle # ev[c].before.conn

\* C9: ensure_connection on a live handle probes once, does not reconnect and
\* leaves the handle as it is; on a dead handle it closes the stale handle
\* once, never raises because of that close, calls connect exactly once, and
\* when that connect succeeds is_connected() is true afterwards.
C9_EnsureConnection ==
    \A c \in Collectors :
        ev[c].call = "ensure_connection" =>
            /\ (ev[c].before.state = "alive" =>
                   /\ ev[c].probes = 1
                   /\ ev[c].connects = 0 /\ ev[c].closes = 0
                   /\ ev[c].ensured = ev[c].before
                   /\ ~ev[c].raised)
            /\ (ev[c].before.state \in {"broken", "closed"} =>
                   /\ ev[c].closes = 1
                   /\ ev[c].connects = 1
                   /\ (ev[c].raised <=> ev[c].ensured.conn = ev[c].before.conn)
                   /\ (~ev[c].raised =>
                          /\ ev[c].ensured.conn # ev[c].before.conn
                          /\ is_connected(ev[c].ensured).ret))

\* C9 witness: ensure_connection replaced a broken handle by a new one.
C9_Witness ==
    \E c \in Collectors :
        /\ ev[c].call = "ensure_connection"
        /\ ev[c].before.state = "broken"
        /\ ev[c].closes = 1 /\ ev[c].connects = 1
        /\ ~ev[c].raised
        /\ ev[c].ensured.state = "alive"

\* C10: is_connected never raises, returns False without a handle (and then
\* probes nothing), False when the probe fails, True exactly when the handle
\* is live, and leaves the writer's handle as it was.
C10_IsConnected ==
    \A c \in Collectors :
        ev[c].call = "is_connected" =>
            /\ ~ev[c].raised
            /\ (ev[c].before.conn = 0 => ~ev[c].ret /\ ev[c].probes = 0)
            /\ (ev[c].before.state \in {"broken", "closed"} =>
                   ~ev[c].ret /\ ev[c].probes = 1)
            /\ (ev[c].ret <=> ev[c].before.state = "alive")
            /\ ev[c].ensured = ev[c].before
            /\ db[c].conn = ev[c].before.conn

\* C10 witness: is_connected returned False on a broken handle.
C10_Witness ==
    \E c \in Collectors :
        /\ ev[c].call = "is_connected"
        /\ ev[c].before.state = "broken"
        /\ ~ev[c].ret /\ ~ev[c].raised

\* C11: insert_market_data_batch with an empty batch does nothing: it opens
\* no cursor, issues no commit and no rollback, raises nothing, and leaves
\* the table and the writer's handle as they were, whatever state the
\* handle is in.
C11_EmptyBatchNoOp ==
    [][\A c \in Collectors :
         (W_insert(c) /\ ev'[c].ins.n = 0) =>
            /\ ev'[c].ins.cursors = 0
            /\ ev'[c].ins.commits = 0
            /\ ev'[c].ins.rollbacks = 0
            /\ ~ev'[c].ins.raised
            /\ table' = table
            /\ db' = db]_vars

\* An empty batch was handed to a writer whose handle is live, with rows
\* already stored, and to a writer with no handle.
C11_Witness ==
    \E c \in Collectors :
        /\ ev[c].call = "insert" /\ ev[c].ins.called /\ ev[c].ins.n = 0
        /\ db[c].state = "alive"
        /\ BagCardinality(table) > 0

\* C12: a tick runs ensure_connection, then opens a fresh session, then the
\* fetch with all its requests and backoff sleeps, then the insert; the
\* insert is never called before the fetch has returned, no request follows
\* it, and the next tick begins only from the interval sleep that follows a
\* finished tick.
C12_TickOrder ==
    [][\A c \in Collectors :
         /\ (pc[c] = "tick" /\ pc'[c] # "tick") =>
                /\ pc'[c] \in {"request", "exited"}
                /\ ev'[c].attempts = 0 /\ ~ev'[c].ins.called
                /\ pc'[c] = "request" =>
                       /\ ev'[c].probes = 1
                       /\ session'[c].open /\ session'[c].id > session[c].id
         /\ (pc[c] = "request" /\ pc'[c] # "request") =>
                /\ pc'[c] \in {"backoff", "persist", "exited"}
                /\ session[c].open /\ ~ev'[c].ins.called
         /\ (pc[c] = "backoff" /\ pc'[c] # "backoff") =>
                /\ pc'[c] \in {"request", "exited"}
                /\ ~ev'[c].ins.called
         /\ (pc[c] = "persist" /\ pc'[c] # "persist") =>
                /\ pc'[c] \in {"sleep", "exited"}
                /\ ev[c].attempts >= 1 /\ ev'[c].attempts = ev[c].attempts
                /\ ~session'[c].open
         /\ (~ev[c].ins.called /\ ev'[c].ins.called) => pc[c] = "persist"
         /\ (pc[c] = "sleep" /\ pc'[c] # "sleep") =>
                /\ pc'[c] \in {"tick", "exited"}
                /\ pc'[c] = "tick" => tick'[c] = tick[c] + 1
         /\ tick'[c] # tick[c] => pc[c] \in {"start", "sleep"}
         /\ pc'[c] = "tick" => pc[c] \in {"start", "sleep", "tick"}]_vars

\* A second tick reached its insert after a retried fetch.
C12_Witness ==
    \E c \in Collectors :
        /\ tick[c] >= 2 /\ pc[c] = "sleep"
        /\ ev[c].attempts >= 2 /\ ev[c].ins.called
        /\ session[c].id = tick[c] /\ ~session[c].open

C14_BackoffDelays ==
    \A c \in Collectors :
        /\ Len(ev[c].sleeps) <= MAX_RETRIES
        /\ \A k \in 1..Len(ev[c].sleeps) :
              /\ ev[c].sleeps[k] = RETRY_DELAY * k
              /\ ev[c].sleeps[k] = <<60, 120, 180>>[k]
        /\ pc[c] = "backoff" => Len(ev[c].sleeps) = retry_count[c] + 1
        /\ pc[c] = "request" => Len(ev[c].sleeps) = retry_count[c]

\* Three backoff sleeps were taken in one fetch, after timeouts and after
\* failures of another kind.
C14_Witness ==
    \E c \in Collectors :
        /\ Len(ev[c].sleeps) = MAX_RETRIES
        /\ ~ev[c].allTimeout
        /\ ev[c].last = "timeout"

\* C15: a fetch makes at most MAX_RETRIES + 1 requests, whatever mix of
\* timeouts and other failures it meets, its retry counter never exceeds
\* MAX_RETRIES, and it ends: a started fetch returns -- None, an empty
\* mapping or a non-empty one, exactly one of them -- unless the task is
\* cancelled first.
C15_FetchTerminates ==
    /\ [](\A c \in Collectors :
             /\ ev[c].attempts <= MAX_RETRIES + 1
             /\ retry_count[c] <= MAX_RETRIES
             /\ pc[c] = "request" => ev[c].attempts = retry_count[c]
             /\ pc[c] = "backoff" =>
                    /\ ev[c].attempts = retry_count[c] + 1
                    /\ retry_count[c] < MAX_RETRIES
             /\ pc[c] = "persist" =>
                    /\ ev[c].attempts \in 1..(MAX_RETRIES + 1)
                    /\ results[c].none => results[c].rows = <<>>
                    /\ ev[c].last \in {"parsed", "status"} => ev[c].attempts = retry_count[c] + 1)
    /\ \A c \in Collectors :
          (pc[c] = "request") ~> (pc[c] \in {"persist", "exited"})

\* A fetch returned after MAX_RETRIES + 1 requests that failed in different
\* ways.
C15_Witness ==
    \E c \in Collectors :
        /\ pc[c] = "persist"
        /\ ev[c].attempts = MAX_RETRIES + 1
        /\ retry_count[c] = MAX_RETRIES
        /\ ~ev[c].allTimeout
        /\ ev[c].last \in {"timeout", "error"}

\* C16: the hyperliquid fetch too is retried with backoff: when its
\* requests fail with a timeout or a network error, the fetch returns
\* only after MAX_RETRIES + 1 requests and MAX_RETRIES backoff sleeps.
C16_HyperliquidRetried ==
    (pc["hyperliquid"] = "persist" /\ ev["hyperliquid"].last = "error") =>
        /\ ev["hyperliquid"].attempts = MAX_RETRIES + 1
        /\ Len(ev["hyperliquid"].sleeps) = MAX_RETRIES

\* A hyperliquid payload of the documented shape was parsed.
ParsedUniverse ==
    /\ parsed.outcome = "hyperliquid"
    /\ payload.data.len >= 2 /\ payload.data.hasUniverse

\* What a JSON value of a context should become in a record: its number,
\* or nothing when it is missing, null, '' or 0.
ColumnOf(v) ==
    IF v.kind = "str" \/ (v.kind = "num" /\ v.val # 0) THEN Dec(v.val) ELSE Absent

Numeric(v) == v.kind \in {"num", "str"}

\* Every value of the context that parse_response converts spells a number.
Converts(ctx) ==
    /\ \A v \in {ctx.markPx, ctx.dayNtlVlm, ctx.openInterest, ctx.funding} :
          v.kind # "text"
    /\ (ctx.impactPxs.present /\ Len(ctx.impactPxs.items) > 0) =>
          \A j \in 1..Min(2, Len(ctx.impactPxs.items)) :
              Numeric(ctx.impactPxs.items[j])

\* The record that universe name and context i should give.
BuiltFrom(row, name, ctx, now) ==
    /\ row.time = now /\ row.exchange = "hyperliquid" /\ row.symbol = name
    /\ row.price = ColumnOf(ctx.markPx)
    /\ row.volume_24h = ColumnOf(ctx.dayNtlVlm)
    /\ row.open_interest = ColumnOf(ctx.openInterest)
    /\ row.funding_rate = ColumnOf(ctx.funding)
    /\ row.bid = IF ctx.impactPxs.present /\ Len(ctx.impactPxs.items) > 0
                 THEN Dec(ctx.impactPxs.items[1].val) ELSE Absent
    /\ row.ask = IF ctx.impactPxs.present /\ Len(ctx.impactPxs.items) > 1
                 THEN Dec(ctx.impactPxs.items[2].val) ELSE Absent

\* C17 as stated: for a universe of length U and a market-context list of
\* length M, parse_response emits exactly min(U, M) records, one per index
\* i < min(U, M), keyed by universe[i] and built from market[i], and a
\* length mismatch does not fail the batch (read here for the payloads
\* whose contexts all spell numbers).
C17_ExactlyMinRecords ==
    ParsedUniverse =>
        LET universe == payload.data.universe
            market   == payload.data.market
            n        == Min(Len(universe), Len(market))
            rows     == parsed.parse.rows
        IN  (\A i \in 1..n : Converts(market[i])) =>
               /\ ~parsed.parse.raised
               /\ Len(rows) = n
               /\ \A i \in 1..n :
                     \E j \in 1..Len(rows) :
                        BuiltFrom(rows[j], universe[i], market[i], parsed.now)

\* C17 amended: parse_response emits one record per distinct name among
\* the first min(U, M) universe entries -- exactly min(U, M) records when
\* those names differ -- each built from the context of the last index
\* that carries its name; entries beyond the shorter list are skipped and
\* a length mismatch never fails the batch. The call fails exactly when a
\* context among the first min(U, M) holds a value that spells no number.
C17_OneRecordPerName ==
    ParsedUniverse =>
        LET universe == payload.data.universe
            market   == payload.data.market
            n        == Min(Len(universe), Len(market))
            rows     == parsed.parse.rows
            names    == {universe[i] : i \in 1..n}
            last(nm) == CHOOSE i \in 1..n :
                           /\ universe[i] = nm
                           /\ \A k \in 1..n : universe[k] = nm => k <= i
        IN  /\ parsed.parse.raised <=> \E i \in 1..n : ~Converts(market[i])
            /\ ~parsed.parse.raised =>
                  /\ Len(rows) = Cardinality(names)
                  /\ Cardinality(names) = n => Len(rows) = n
                  /\ {rows[j].symbol : j \in 1..Len(rows)} = names
                  /\ \A j \in 1..Len(rows) :
                        BuiltFrom(rows[j], rows[j].symbol,
                                  market[last(rows[j].symbol)], parsed.now)
                  /\ parsed.fetch.result = DataResult(rows)

\* A universe longer than the market list, its first two entries carrying
\* one name: a single record comes out, built from the second context.
C17_Witness ==
    /\ ParsedUniverse
    /\ ~parsed.parse.raised
    /\ Len(payload.data.universe) = 3 /\ Len(payload.data.market) = 2
    /\ payload.data.universe[1] = payload.data.universe[2]
    /\ payload.data.market[1] # payload.data.market[2]
    /\ Len(parsed.parse.rows) = 1

\* An aggregator payload was handed to the lighter parser.
ParsedLighter == parsed.outcome = "lighter"

\* The record that the aggregator record rec should give.
Normalized(row, rec, now) ==
    /\ row.time = now
    /\ row.exchange = IF rec.exchange \in DOMAIN EXCHANGE_MAP
                      THEN EXCHANGE_MAP[rec.exchange] ELSE rec.exchange
    /\ row.exchange = CASE rec.exchange = "binance" -> "binance_lighter"
                         [] rec.exchange = "bybit" -> "bybit_lighter"
                         [] rec.exchange = "hyperliquid" -> "hyperliquid_lighter"
                         [] OTHER -> rec.exchange
    /\ row.symbol = rec.symbol
    /\ row.funding_rate = Dec(rec.rate.val)
    /\ row.price = Absent /\ row.volume_24h = Absent
    /\ row.open_interest = Absent
    /\ row.bid = Absent /\ row.ask = Absent

\* C18: every record parse_response makes of an aggregator payload comes
\* from a record of the payload: its exchange is EXCHANGE_MAP's image of
\* the input exchange when that is a key of the table and the input
\* exchange itself otherwise, its funding_rate is the input rate, and
\* price, volume_24h, open_interest, bid and ask are absent; every record
\* of the payload is represented under its mapped exchange and symbol.
C18_ExchangeMapped ==
    (ParsedLighter /\ ~parsed.parse.raised) =>
        LET recs == payload.data.recs
            rows == parsed.parse.rows
        IN  /\ \A j \in 1..Len(rows) :
                  \E i \in 1..Len(recs) : Normalized(rows[j], recs[i], parsed.now)
            /\ "funding_rates" \in payload.data.keys =>
                  \A i \in 1..Len(recs) :
                     \E j \in 1..Len(rows) :
                        /\ rows[j].symbol = recs[i].symbol
                        /\ rows[j].exchange =
                              IF recs[i].exchange \in DOMAIN EXCHANGE_MAP
                              THEN EXCHANGE_MAP[recs[i].exchange]
                              ELSE recs[i].exchange

\* A payload with a venue of the table and a venue outside it was parsed
\* into two records.
C18_Witness ==
    /\ ParsedLighter /\ ~parsed.parse.raised
    /\ Len(parsed.parse.rows) = 2
    /\ \E i, j \in 1..Len(payload.data.recs) :
          /\ payload.data.recs[i].exchange = "hyperliquid"
          /\ payload.data.recs[j].exchange = "dydx"
          /\ payload.data.recs[i].rate # payload.data.recs[j].rate

\* The payloads the validation is to reject.
Malformed(data) ==
    \/ ~data.isDict
    \/ "code" \notin data.keys
    \/ "funding_rates" \notin data.keys
    \/ ~data.isList
    \/ \E i \in 1..Len(data.recs) :
          \E f \in {"market_id", "exchange", "symbol", "rate"} :
             f \notin data.recs[i].fields

\* C19: validate_response raises for a payload that is not a mapping, has
\* no 'code', has no 'funding_rates', has a 'funding_rates' that is no
\* list, or has a record without market_id, exchange, symbol or rate, and
\* for no other; the fetch that received such a payload never reaches
\* parse_response: it yields no record, at any retry depth.
C19_ValidationRejects ==
    ParsedLighter =>
        /\ Malformed(payload.data) <=> parsed.valid = "ValueError"
        /\ Malformed(payload.data) =>
              /\ parsed.fetch.outcome = "invalid"
              /\ parsed.fetch.result = NoneResult
              /\ parsed.fetch.result.rows = <<>>

\* A payload whose second record lacks market_id only -- parse_response
\* alone would have made records of it -- was rejected.
C19_Witness ==
    /\ ParsedLighter
    /\ parsed.valid = "ValueError"
    /\ Len(payload.data.recs) = 2
    /\ payload.data.recs[1].fields = RequiredFields
    /\ payload.data.recs[2].fields = RequiredFields \ {"market_id"}
    /\ ~parsed.parse.raised /\ Len(parsed.parse.rows) > 0
    /\ parsed.fetch.result = NoneResult

\* C20: the table only grows: every step keeps each stored row with all
\* its copies, the only step that changes the table is a collector's
\* insert that committed, and it adds exactly the N rows of its batch --
\* also when rows of the same (exchange, symbol) are already stored.
C20_AppendOnly ==
    [][/\ table \sqsubseteq table'
       /\ table' # table =>
             \E c \in Collectors :
                /\ pc[c] = "persist" /\ pc'[c] \in {"sleep", "exited"}
                /\ ev'[c].ins.called /\ ev'[c].ins.commits = 1
                /\ ev'[c].ins.failed \in {"none", "close"}
       /\ \A c \in Collectors :
             (pc[c] = "persist" /\ pc'[c] # "persist" /\ ev'[c].ins.called
              /\ ev'[c].ins.failed \in {"none", "close"}) =>
                /\ table' = table (+) SeqToBag(results[c].rows)
                /\ BagCardinality(table') = BagCardinality(table) + ev'[c].ins.n
                /\ ev'[c].ins.n = Len(results[c].rows)]_vars

\* Two collection runs stored the same (exchange, symbol): both rows are
\* in the table.
C20_Witness ==
    \E r1, r2 \in BagToSet(table) :
        /\ r1 # r2
        /\ r1.exchange = r2.exchange /\ r1.symbol = r2.symbol
        /\ r1.time # r2.time

\* C21: every record a collector hands to the insert has a time, an
\* exchange and a symbol that are not null, for every payload that passes
\* the collector's checks, payloads with null names included.
C21_KeysNotNull ==
    (parsed.outcome \in {"lighter", "hyperliquid"}
     /\ parsed.fetch.outcome = "parsed") =>
        \A j \in 1..Len(parsed.fetch.result.rows) :
            LET row == parsed.fetch.result.rows[j]
            IN  /\ row.time = parsed.now
                /\ row.exchange # PyNone
                /\ row.symbol # PyNone

\* C22: the records of the batch a tick produced all carry one time
\* value, the clock read of that tick's parse, for both collectors.
C22_OneTimePerBatch ==
    \A c \in Collectors :
        LET rows == results[c].rows
        IN  \A i, j \in 1..Len(rows) : rows[i].time = rows[j].time

\* A tick produced a batch of two records.
C22_Witness ==
    \E c \in Collectors :
        /\ pc[c] = "persist"
        /\ Len(results[c].rows) = 2
        /\ results[c].rows[1].symbol # results[c].rows[2].symbol
           \/ results[c].rows[1].exchange # results[c].rows[2].exchange

\* An endpoint answered with a body.
Answered(endpoint) == response.endpoint = endpoint /\ response.status = 200

\* The stored rows of one (exchange, symbol) that count: inside the
\* trailing window, with a funding rate.
Counting(e, s) ==
    { x \in TableCopies(table) :
        /\ x.row.exchange = e /\ x.row.symbol = s
        /\ x.row.time > Now - 3
        /\ x.row.funding_rate # Absent }

\* C23: for every (exchange, symbol) the aggregation takes the rows inside
\* the trailing 3-day window that have a funding rate, keeps at most the
\* RowLimit (144) most recent of them, and reports their mean (sum over
\* count) and their count as data_points; a key with no such row is not
\* reported, and rows with a null rate change neither the selection nor
\* the count.
C23_WindowedMean ==
    (response.endpoint # "none" /\ response.status = 200) =>
        LET rows   == response.results
            venues == IF response.endpoint = "funding-rates"
                      THEN {"hyperliquid"}
                      ELSE {r.exchange : r \in BagToSet(table)}
            keys   == { <<r.exchange, r.symbol>> : r \in BagToSet(table) }
        IN  /\ \A i \in 1..Len(rows) :
                  LET g == rows[i]
                      c == Counting(g.exchange, g.symbol)
                  IN  /\ g.exchange \in venues
                      /\ g.data_points >= 1
                      /\ g.data_points = Min(RowLimit, Cardinality(c))
                      /\ \E T \in SUBSET c :
                            /\ Cardinality(T) = g.data_points
                            /\ \A x \in T, y \in c \ T : x.row.time >= y.row.time
                            /\ g.sum = SumRates(T)
                      /\ \A j \in 1..Len(rows) :
                            (rows[j].exchange = g.exchange
                             /\ rows[j].symbol = g.symbol) => j = i
            /\ \A k \in keys :
                  (k[1] \in venues /\ Counting(k[1], k[2]) # {}) =>
                     \E i \in 1..Len(rows) :
                        rows[i].exchange = k[1] /\ rows[i].symbol = k[2]
            /\ LET rated == { r \in BagToSet(table) : r.funding_rate # Absent }
                    venue == IF response.endpoint = "funding-rates"
                             THEN "hyperliquid" ELSE "*"
                IN  fetchall([r \in rated |-> table[r]], Now, venue)
                       = fetchall(table, Now, venue)

\* A market with more rated rows in the window than the limit, and a
\* null rate as its latest row: the two latest rated rows are averaged.
C23_Witness ==
    /\ Answered("funding-rates-by-exchange")
    /\ \E i \in 1..Len(response.results) :
          LET g == response.results[i]
          IN  /\ Cardinality(Counting(g.exchange, g.symbol)) > RowLimit
              /\ g.data_points = RowLimit
              /\ \E r \in BagToSet(table) :
                    /\ r.exchange = g.exchange /\ r.symbol = g.symbol
                    /\ r.funding_rate = Absent
                    /\ \A x \in Counting(g.exchange, g.symbol) : r.time > x.row.time

\* The entries of a venue in the answer of the all-exchanges query, with
\* the mean as it is reported.
VenueEntries(v) ==
    { [exchange |-> g.exchange, symbol |-> g.symbol,
       avg_funding_rate |-> Float(g), data_points |-> g.data_points] :
        g \in { response.results[i] : i \in 1..Len(response.results) }
               \cap { h \in { response.results[i] : i \in 1..Len(response.results) } :
                        h.exchange = v } }

\* list holds n entries of E without repetition, in the given direction
\* of the reported mean, and no entry of E left out would sort before one
\* that is listed.
RankedTop(list, E, n, descending) ==
    /\ Len(list) = Min(n, Cardinality(E))
    /\ \A i \in 1..Len(list) : list[i] \in E
    /\ \A i, j \in 1..Len(list) : i # j => list[i].symbol # list[j].symbol
    /\ \A i \in 1..(Len(list) - 1) :
          IF descending
          THEN list[i].avg_funding_rate >= list[i + 1].avg_funding_rate
          ELSE list[i].avg_funding_rate <= list[i + 1].avg_funding_rate
    /\ \A e \in E :
          (\A i \in 1..Len(list) : list[i] # e) =>
             \A i \in 1..Len(list) :
                IF descending
                THEN e.avg_funding_rate <= list[i].avg_funding_rate
                ELSE e.avg_funding_rate >= list[i].avg_funding_rate

\* C24: in the all-exchanges view each venue's long_opportunities are the
\* up to TopN (10) entries of that venue with the lowest reported mean, in
\* ascending order, and its short_opportunities the up to TopN entries
\* with the highest, in descending order; every entry listed under a
\* venue is an entry of that venue.
C24_VenueTopLists ==
    Answered("funding-rates-by-exchange") =>
        \A v \in DOMAIN response.body :
            /\ RankedTop(response.body[v].long_opportunities, VenueEntries(v),
                         TopN, FALSE)
            /\ RankedTop(response.body[v].short_opportunities, VenueEntries(v),
                         TopN, TRUE)
            /\ \A i \in 1..Len(response.body[v].long_opportunities) :
                  response.body[v].long_opportunities[i].exchange = v
            /\ \A i \in 1..Len(response.body[v].short_opportunities) :
                  response.body[v].short_opportunities[i].exchange = v

\* A venue with more markets than the lists hold, next to another venue
\* with data: its two lists differ.
C24_Witness ==
    /\ Answered("funding-rates-by-exchange")
    /\ \E v, w \in DOMAIN response.body :
          /\ v # w
          /\ Cardinality(VenueEntries(v)) > TopN
          /\ Len(response.body[v].long_opportunities) = TopN
          /\ response.body[v].long_opportunities[1]
                # response.body[v].short_opportunities[TopN]
          /\ Len(response.body[w].long_opportunities) > 0

\* The symbols of the single-exchange query's answer, with the mean as it
\* is reported.
SymbolEntries ==
    { [symbol |-> response.results[i].symbol,
       funding_3d_avg |-> Float(response.results[i]),
       data_points |-> response.results[i].data_points] :
        i \in 1..Len(response.results) }

\* As RankedTop, for the entries of the single-exchange view.
RankedTopSymbols(list, E, n, descending) ==
    /\ Len(list) = Min(n, Cardinality(E))
    /\ \A i \in 1..Len(list) : list[i] \in E
    /\ \A i, j \in 1..Len(list) : i # j => list[i].symbol # list[j].symbol
    /\ \A i \in 1..(Len(list) - 1) :
          IF descending
          THEN list[i].funding_3d_avg >= list[i + 1].funding_3d_avg
          ELSE list[i].funding_3d_avg <= list[i + 1].funding_3d_avg
    /\ \A e \in E :
          (\A i \in 1..Len(list) : list[i] # e) =>
             \A i \in 1..Len(list) :
                IF descending
                THEN e.funding_3d_avg <= list[i].funding_3d_avg
                ELSE e.funding_3d_avg >= list[i].funding_3d_avg

\* C25: in the single-exchange view top_10_long is the up to TopN (10)
\* symbols with the lowest mean in ascending order and top_10_short the up
\* to TopN symbols with the highest mean in descending order, for any
\* number of symbols with data.
C25_SingleViewTopLists ==
    Answered("funding-rates") =>
        /\ RankedTopSymbols(response.body.top_10_long, SymbolEntries,
                            TopN, FALSE)
        /\ RankedTopSymbols(response.body.top_10_short, SymbolEntries,
                            TopN, TRUE)

\* The venues whose stored rows count for no market at all.
VenuesWithoutData ==
    { v \in {"binance_lighter", "bybit_lighter", "hyperliquid_lighter",
             "lighter", "hyperliquid"} :
        \A r \in BagToSet(table) :
            r.exchange = v => Counting(v, r.symbol) = {} }

\* C26: the body of the all-exchanges view has a key for each of the five
\* known venues, whatever the table holds, and a venue with no row that
\* counts inside the window has empty long and short lists.
C26_FiveVenueKeys ==
    Answered("funding-rates-by-exchange") =>
        /\ DOMAIN response.body =
              {"binance_lighter", "bybit_lighter", "hyperliquid_lighter",
               "lighter", "hyperliquid"}
        /\ \A v \in VenuesWithoutData :
              /\ response.body[v].long_opportunities = <<>>
              /\ response.body[v].short_opportunities = <<>>

\* The table holds rows of a listed venue that do not count (null rate) and
\* of another listed venue that do: both are keys, the first with empty
\* lists.
C26_Witness ==
    /\ Answered("funding-rates-by-exchange")
    /\ \E v \in VenuesWithoutData :
          /\ \E r \in BagToSet(table) : r.exchange = v
          /\ response.body[v].long_opportunities = <<>>
    /\ \E v \in DOMAIN response.body :
          response.body[v].short_opportunities # <<>>
    /\ Cardinality(VenuesWithoutData) >= 3

\* C27: in every record the hyperliquid parser emits, bid is impactPxs[0]
\* and ask is impactPxs[1] of the context the record is built from when
\* the array holds them (an array of one price gives a bid and no ask),
\* both are absent when the array is missing or empty, and the two values
\* are stored as they come, whichever is the larger.
C27_ImpactPricesPassThrough ==
    (ParsedUniverse /\ ~parsed.parse.raised) =>
        LET universe == payload.data.universe
            market   == payload.data.market
            n        == Min(Len(universe), Len(market))
            rows     == parsed.parse.rows
            last(nm) == CHOOSE i \in 1..n :
                           /\ universe[i] = nm
                           /\ \A k \in 1..n : universe[k] = nm => k <= i
        IN  \A j \in 1..Len(rows) :
               LET px == market[last(rows[j].symbol)].impactPxs
               IN  /\ (~px.present \/ Len(px.items) = 0) =>
                         (~rows[j].bid.has /\ ~rows[j].ask.has)
                   /\ (px.present /\ Len(px.items) >= 1) =>
                         (rows[j].bid.has /\ rows[j].bid.val = px.items[1].val)
                   /\ (px.present /\ Len(px.items) >= 2) =>
                         (rows[j].ask.has /\ rows[j].ask.val = px.items[2].val)
                   /\ (px.present /\ Len(px.items) = 1) => ~rows[j].ask.has

\* One payload gave a record whose bid is above its ask and a record with
\* neither, from an array that is there but empty.
C27_Witness ==
    /\ ParsedUniverse /\ ~parsed.parse.raised
    /\ Len(payload.data.market) = 2
    /\ payload.data.market[2].impactPxs = [present |-> TRUE, items |-> <<>>]
    /\ \E i, j \in 1..Len(parsed.parse.rows) :
          /\ parsed.parse.rows[i].bid.has /\ parsed.parse.rows[i].ask.has
          /\ parsed.parse.rows[i].bid.val > parsed.parse.rows[i].ask.val
          /\ ~parsed.parse.rows[j].bid.has /\ ~parsed.parse.rows[j].ask.has
    /\ parsed.fetch.result = DataResult(parsed.parse.rows)

\* Everything one collector's process holds.
OwnState(c) ==
    <<pc[c], tick[c], db[c], nconn[c], retry_count[c], results[c], exc[c],
      ev[c], session[c]>>

\* The steps of a tick of collector c.
TickStep(c) ==
    \/ Collect_ensure(c)
    \/ Lighter_request(c)
    \/ Hyperliquid_request(c)
    \/ Collect_persist(c)

\* This step of collector c is an insert whose commit went through.
CommitsBatch(c) ==
    /\ pc[c] = "persist" /\ pc'[c] # "persist"
    /\ HasResults(results[c])
    /\ ev'[c].ins.called
    /\ ev'[c].ins.failed \notin {"cursor", "execute", "commit"}

\* While one collector waits in a retry (the request of a retry or its
\* backoff sleep) the other, when it is inside a tick, can take its step.
NeverBlocked ==
    \A c, o \in Collectors :
        (c # o /\ pc[c] \in {"request", "backoff"}
               /\ (retry_count[c] > 0 \/ pc[c] = "backoff")
               /\ pc[o] \in {"tick", "request", "persist"})
            => ENABLED TickStep(o)

\* A step changes what one collector holds and nothing of the other; the
\* table changes only by a committed batch being added, whole.
OneCollectorSteps ==
    /\ \E c \in Collectors :
          \A o \in Collectors \ {c} : OwnState(o)' = OwnState(o)
    /\ \A c \in Collectors :
          CommitsBatch(c) => table' = table (+) SeqToBag(results[c].rows)
    /\ (\A c \in Collectors : ~CommitsBatch(c)) => table' = table
    /\ dbUp' = dbUp

\* C28: with both collectors running, every step changes the state of one
\* collector only, the table being the one thing both write; a collector
\* waiting in a retry or its backoff never disables a step of the other's
\* tick; and in every interleaving the table grows by exactly the batches
\* whose commit went through, whichever collector made them.
C28_IndependentCollectors == []NeverBlocked /\ [][OneCollectorSteps]_vars

\* The lighter collector sits in the backoff of its second tick while the
\* hyperliquid collector has committed a batch; the table holds rows of
\* both.
C28_Witness ==
    /\ started = Collectors
    /\ pc["lighter"] = "backoff" /\ tick["lighter"] = 2
    /\ pc["hyperliquid"] = "sleep" /\ ev["hyperliquid"].ins.added > 0
    /\ \E r \in BagToSet(table) : r.exchange = "hyperliquid"
    /\ \E r \in BagToSet(table) : r.exchange # "hyperliquid"

\* From the health check of a tick to its insert nothing probes the
\* connection again and nothing reconnects.
NoSecondCheck ==
    \A c \in Collectors :
        (pc[c] \in {"request", "backoff", "persist"} /\ pc'[c] # "exited") =>
            /\ ev'[c].probes = ev[c].probes
            /\ ev'[c].connects = ev[c].connects
            /\ nconn'[c] = nconn[c]
            /\ db'[c].conn = db[c].conn

\* The one check of the tick came before the fetch; the insert ran on the
\* handle that check left; on a handle that died since, it failed, added
\* nothing and its exception ended main().
CheckedOnce ==
    \A c \in Collectors :
        /\ pc[c] \in {"request", "backoff", "persist", "sleep"} =>
              /\ ev[c].probes = 1
              /\ ev[c].ensured.conn # 0 /\ ev[c].ensured.state = "alive"
        /\ ev[c].ins.called =>
              /\ ev[c].probes = 1
              /\ ev[c].ins.handle = ev[c].ensured.conn
              /\ ev[c].ins.handle = nconn[c]
        /\ (ev[c].ins.called /\ ~ev[c].ins.live) =>
              /\ ev[c].ins.raised /\ ev[c].ins.added = 0
              /\ ev[c].ins.failed = "execute"
              /\ pc[c] = "exited" /\ exc[c] = "insert"

\* C29: a tick checks the connection exactly once, before its fetch;
\* neither the fetch with its backoff sleeps nor the insert checks it
\* again or reconnects, the insert runs on the handle the check left, and
\* when that connection died in the meantime the insert fails and raises,
\* ending main(), instead of reconnecting.
C29_OneHealthCheckPerTick == []CheckedOnce /\ [][NoSecondCheck]_vars

\* The connection passed the check, died while the fetch was retrying,
\* and the insert on it raised with nothing added and no new connection.
C29_Witness ==
    \E c \in Collectors :
        /\ pc[c] = "exited" /\ exc[c] = "insert"
        /\ ev[c].ins.called /\ ~ev[c].ins.live
        /\ ev[c].attempts >= 2 /\ Len(ev[c].sleeps) >= 1
        /\ ev[c].probes = 1 /\ ev[c].connects = 0
        /\ ev[c].ensured.state = "alive"
        /\ ev[c].ins.handle = nconn[c]

\* The key parse_response files an aggregator record under.
KeyOf(rec) ==
    << CASE rec.exchange = "binance" -> "binance_lighter"
         [] rec.exchange = "bybit" -> "bybit_lighter"
         [] rec.exchange = "hyperliquid" -> "hyperliquid_lighter"
         [] rec.exchange = "lighter" -> "lighter"
         [] OTHER -> rec.exchange,
       rec.symbol >>

\* C30: the lighter parser emits one record per distinct (mapped exchange,
\* symbol) of its input, so never more records than the input holds; input
\* records whose exchange names map to the same name and whose symbols are
\* equal give a single record, and it carries the rate of the last of
\* them in list order.
C30_OneRecordPerKey ==
    (ParsedLighter /\ ~parsed.parse.raised
                   /\ "funding_rates" \in payload.data.keys) =>
        LET recs == payload.data.recs
            rows == parsed.parse.rows
            last(k) == CHOOSE i \in 1..Len(recs) :
                          /\ KeyOf(recs[i]) = k
                          /\ \A m \in 1..Len(recs) : KeyOf(recs[m]) = k => m <= i
        IN  /\ Len(rows) <= Len(recs)
            /\ Len(rows) = Cardinality({KeyOf(recs[i]) : i \in 1..Len(recs)})
            /\ \A i, j \in 1..Len(rows) :
                  (rows[i].exchange = rows[j].exchange
                   /\ rows[i].symbol = rows[j].symbol) => i = j
            /\ \A j \in 1..Len(rows) :
                  LET k == <<rows[j].exchange, rows[j].symbol>>
                  IN  /\ k \in {KeyOf(recs[i]) : i \in 1..Len(recs)}
                      /\ rows[j].funding_rate = Dec(recs[last(k)].rate.val)

\* Two records sent under different names that map to one, with
\* different rates, came out as one record with the rate of the second.
C30_Witness ==
    /\ ParsedLighter /\ ~parsed.parse.raised
    /\ Len(payload.data.recs) = 2
    /\ payload.data.recs[1].exchange = "binance"
    /\ payload.data.recs[2].exchange = "binance_lighter"
    /\ payload.data.recs[1].rate = JNum(2)
    /\ Len(parsed.parse.rows) = 1
    /\ parsed.parse.rows[1].exchange = "binance_lighter"
    /\ parsed.parse.rows[1].funding_rate = Dec(1)
    /\ parsed.fetch.result = DataResult(parsed.parse.rows)

\* The five venue names the all-exchanges view is built for.
FixedVenues ==
    {"binance_lighter", "bybit_lighter", "hyperliquid_lighter", "lighter",
     "hyperliquid"}

\* The stored rows of a venue the view is not built for.
UnlistedRows == { r \in BagToSet(table) : r.exchange \notin FixedVenues }

\* Row r is what the aggregator collector stores for a record that names
\* r's venue: the name is outside EXCHANGE_MAP and comes out as it went in.
PassedThrough(r) ==
    /\ r.exchange \notin DOMAIN EXCHANGE_MAP
    /\ r.funding_rate.has
    /\ Lighter_parse_response(
          WellFormed(<< [fields |-> RequiredFields, exchange |-> r.exchange,
                         symbol |-> r.symbol,
                         rate |-> JNum(r.funding_rate.val)] >>),
          r.time) = [raised |-> FALSE, rows |-> <<r>>]

\* Every entry of every list of the body.
ListedEntries ==
    UNION { { response.body[v].long_opportunities[i] :
                i \in 1..Len(response.body[v].long_opportunities) }
            \cup
            { response.body[v].short_opportunities[i] :
                i \in 1..Len(response.body[v].short_opportunities) } :
            v \in DOMAIN response.body }

\* C31: a row stored under a venue name outside the mapping table -- the
\* aggregator parser passes such a name through unchanged -- is never
\* shown by the all-exchanges view: the body has the five fixed venue keys
\* and no other, every entry of every long and short list names one of
\* the five, and no entry names the venue of such a row, although the
\* query itself returns it.
C31_UnlistedVenuesHidden ==
    Answered("funding-rates-by-exchange") =>
        /\ DOMAIN response.body \subseteq FixedVenues
        /\ \A e \in ListedEntries : e.exchange \in FixedVenues
        /\ \A r \in UnlistedRows :
              /\ PassedThrough(r)
              /\ \A e \in ListedEntries : e.exchange # r.exchange
              /\ Counting(r.exchange, r.symbol) # {} =>
                    \E i \in 1..Len(response.results) :
                       /\ response.results[i].exchange = r.exchange
                       /\ response.results[i].symbol = r.symbol

\* A dydx row counts and the query returns its mean next to those of a
\* listed venue; the lists show the listed venue only.
C31_Witness ==
    /\ Answered("funding-rates-by-exchange")
    /\ \E r \in UnlistedRows :
          /\ r.exchange = "dydx" /\ PassedThrough(r)
          /\ \E i \in 1..Len(response.results) :
                response.results[i].exchange = "dydx"
    /\ ListedEntries # {}
    /\ \A e \in ListedEntries : e.exchange # "dydx"

====
